---------------------------- MODULE Spec2Model ----------------------------
(***************************************************************************)
(* dod::chunked_vector<T, PAGE_SIZE> (src/chunked_vector/chunked_vector.h, *)
(* the iterator-debugging revision, lines 1542-2865): the page table, the  *)
(* pages, the element lifetimes and the public operations.                 *)
(***************************************************************************)
EXTENDS Integers, Sequences, FiniteSets, TLC

\* ------------------------------------------------------------------ bounds
\* template parameter PAGE_SIZE (1024 by default), scaled down
PAGE_SIZE == 2
\* pages CHUNKED_VEC_ALLOC can hand out before the operations stop allocating
HeapPages == 2
\* the same where two containers of MaxSize elements are copied and moved
CopyPages == 4
\* elements one container is grown to
MaxSize == 4
\* elements in an initializer list
MaxInit == 2
\* width of size_type in bits, scaled down from 64
SizeBits == 12
\* sizeof(T*) for that width
PtrBytes == 2
\* iterator objects the caller holds at a time
MaxIters == 2

\* ------------------------------------------------------- program constants
SAFETY_MARGIN == 16
GROWTH_FACTOR_DENOMINATOR == 2
\* the iterator-debugging build (the default unless NDEBUG is defined)
CHUNKED_VEC_ITERATOR_DEBUG_LEVEL == 2

\* raw storage holding no object (fresh from the allocator, or destructed)
NoObj == 0
\* T{}: the value-initialized element
DefaultT == 1
\* nullptr in the page table
NULL == 0

Containers == {1, 2}
\* the element values in use; DefaultT is one of them
Values == {1, 2}
PageIds == 1..CopyPages
\* the iterator objects: those the caller holds, then the temporaries of one
\* call: the arguments pos / first and last, and the returned iterator
Held == 1..MaxIters
PosArg == MaxIters + 1
LastArg == MaxIters + 2
RetVal == MaxIters + 3
ItIds == 1..RetVal
SIZE_MAX == 2^SizeBits - 1
\* size_type arithmetic wraps
Wrap(x) == x % (SIZE_MAX + 1)
Min(a, b) == IF a < b THEN a ELSE b

VARIABLES
    m_pages,          \* m_pages[c]: the page-table array (<<>> is nullptr)
    m_page_count,     \* m_page_count[c]
    m_page_capacity,  \* m_page_capacity[c]
    m_size,           \* m_size[c]
    alive,            \* alive[c]: c is between its constructor and destructor
    heap,             \* heap[p]: <<>> when page p is free, else its PAGE_SIZE slots
    trivial,          \* T is trivially copyable / constructible / destructible
    m_iterator_list,  \* m_iterator_list[c]: head of c's iterator list (NULL: empty)
    iters,            \* iters[x]: the fields of iterator object x
    last              \* the call the caller has not looked at yet

vars == <<m_pages, m_page_count, m_page_capacity, m_size, alive, heap, trivial,
          m_iterator_list, iters, last>>

\* -------------------------------------------------------- index translator
RECURSIVE count_trailing_zeros(_)
count_trailing_zeros(value) ==
    IF value = 0 THEN 0
    ELSE IF value % 2 # 0 THEN 0
    ELSE 1 + count_trailing_zeros(value \div 2)

RECURSIVE BitAnd(_, _)
BitAnd(a, b) ==
    IF a = 0 \/ b = 0 THEN 0
    ELSE (a % 2) * (b % 2) + 2 * BitAnd(a \div 2, b \div 2)

IsPow2(n) == BitAnd(n, n - 1) = 0

\* <<page index, element index within the page>>
get_page_and_element_indices(pos) ==
    IF IsPow2(PAGE_SIZE)
    THEN <<pos \div (2^count_trailing_zeros(PAGE_SIZE)), BitAnd(pos, PAGE_SIZE - 1)>>
    ELSE <<pos \div PAGE_SIZE, pos % PAGE_SIZE>>

\* ------------------------------------------------- one container's fields
\* The fields of container c with the heap, as the value the member functions
\* below transform.  err keeps the first fault: a failed CHUNKED_VEC_ASSERT or
\* a lifetime violation (construct over a live object, destruct or move from
\* raw storage); realloc records that the page-table array was reallocated;
\* level is the CHUNKED_VEC_ITERATOR_DEBUG_LEVEL the code is compiled with.
Self(c) ==
    [this |-> c, pages |-> m_pages[c], page_count |-> m_page_count[c],
     page_capacity |-> m_page_capacity[c], size |-> m_size[c],
     heap |-> heap, lists |-> m_iterator_list, its |-> iters,
     sizes |-> m_size, tables |-> m_pages,
     level |-> CHUNKED_VEC_ITERATOR_DEBUG_LEVEL,
     err |-> "none", realloc |-> FALSE, oom |-> FALSE]

Fail(S, what) == IF S.err = "none" THEN [S EXCEPT !.err = what] ELSE S

\* m_pages[page_idx] (0-based)
PageAt(S, page_idx) ==
    IF page_idx + 1 \in 1..Len(S.pages) THEN S.pages[page_idx + 1] ELSE NULL

\* the slot m_pages[page_idx][elem_idx]
SlotAt(S, page_idx, elem_idx) ==
    LET p == PageAt(S, page_idx) IN
    IF p # NULL /\ S.heap[p] # <<>> /\ elem_idx < PAGE_SIZE
    THEN S.heap[p][elem_idx + 1] ELSE NoObj

Addressable(S, page_idx, elem_idx) ==
    LET p == PageAt(S, page_idx) IN
    p # NULL /\ S.heap[p] # <<>> /\ elem_idx < PAGE_SIZE

\* dod::construct<T>(&m_pages[page_idx][elem_idx], value)
construct(S, page_idx, elem_idx, value) ==
    IF ~Addressable(S, page_idx, elem_idx) THEN Fail(S, "write_outside_page")
    ELSE LET p == PageAt(S, page_idx)
             T == IF S.heap[p][elem_idx + 1] # NoObj
                  THEN Fail(S, "construct_over_live") ELSE S
         IN [T EXCEPT !.heap[p][elem_idx + 1] = value]

\* dod::destruct(&m_pages[page_idx][elem_idx])
destruct(S, page_idx, elem_idx) ==
    IF ~Addressable(S, page_idx, elem_idx) THEN Fail(S, "write_outside_page")
    ELSE LET p == PageAt(S, page_idx)
             T == IF S.heap[p][elem_idx + 1] = NoObj
                  THEN Fail(S, "destruct_raw") ELSE S
         IN [T EXCEPT !.heap[p][elem_idx + 1] = NoObj]

\* page_ptr[elem_idx] = value on a trivial T: the assignment starts the value
assign_trivial(S, page_idx, elem_idx, value) ==
    IF ~Addressable(S, page_idx, elem_idx) THEN Fail(S, "write_outside_page")
    ELSE [S EXCEPT !.heap[PageAt(S, page_idx)][elem_idx + 1] = value]

\* a trivially destructible T whose destructor call is skipped: the slot is
\* abandoned and counts as raw storage again
abandon(S, page_idx, elem_idx) ==
    IF ~Addressable(S, page_idx, elem_idx) THEN S
    ELSE [S EXCEPT !.heap[PageAt(S, page_idx)][elem_idx + 1] = NoObj]

\* ------------------------------------------------- the iterator registry
\* an iterator object: the iterator_node base (container, index, next) and the
\* basic_iterator members; bound is FALSE outside the object's lifetime
NoNode ==
    [bound |-> FALSE, container |-> NULL, index |-> 0, next |-> NULL,
     m_container |-> NULL, m_index |-> 0, m_current_page |-> NULL,
     m_page_element_index |-> 0]

\* size() and m_pages of container c as the running call sees them
SizeOf(S, c) == IF c = S.this THEN S.size ELSE S.sizes[c]
TableOf(S, c) == IF c = S.this THEN S.pages ELSE S.tables[c]

\* c->_adopt_iterator(node)
_adopt_iterator(S, c, node) ==
    IF S.level = 0 THEN S
    ELSE [S EXCEPT !.its[node].container = c,
                   !.its[node].next = S.lists[c],
                   !.lists[c] = node]

\* the walk of _orphan_iterator from the link after prev (NULL: the list head)
RECURSIVE orphan_walk(_, _, _, _, _)
orphan_walk(S, c, prev, node, fuel) ==
    LET current == IF prev = NULL THEN S.lists[c] ELSE S.its[prev].next IN
    IF current = NULL \/ fuel = 0 THEN S
    ELSE IF current = node
    THEN LET A == IF prev = NULL THEN [S EXCEPT !.lists[c] = S.its[node].next]
                  ELSE [S EXCEPT !.its[prev].next = S.its[node].next]
         IN [A EXCEPT !.its[node].next = NULL, !.its[node].container = NULL]
    ELSE orphan_walk(S, c, current, node, fuel - 1)

\* _orphan_iterator that drops the head of the list when it does not find node
_orphan_iterator_pop(S, c, node) ==
    LET W == orphan_walk(S, c, NULL, node, RetVal) IN
    IF W = S /\ S.lists[c] # NULL
    THEN [S EXCEPT !.lists[c] = S.its[S.lists[c]].next]
    ELSE W

\* c->_orphan_iterator(node)
_orphan_iterator(S, c, node) ==
    IF S.level = 0 THEN S
    ELSE orphan_walk(S, c, NULL, node, RetVal)

\* the walk of _invalidate_all_iterators stopping after the first node
invalidate_walk_first(S, node, fuel) ==
    IF node = NULL \/ fuel = 0 THEN S
    ELSE [S EXCEPT !.its[node].container = NULL, !.its[node].next = NULL]

RECURSIVE invalidate_walk(_, _, _)
invalidate_walk(S, node, fuel) ==
    IF node = NULL \/ fuel = 0 THEN S
    ELSE invalidate_walk([S EXCEPT !.its[node].container = NULL,
                                   !.its[node].next = NULL],
                         S.its[node].next, fuel - 1)

\* _invalidate_all_iterators emptying the list without clearing the nodes
_invalidate_all_iterators_head(S, c) ==
    IF S.level = 0 THEN S
    ELSE [S EXCEPT !.lists[c] = NULL]

\* c->_invalidate_all_iterators()
_invalidate_all_iterators(S, c) ==
    IF S.level = 0 THEN S
    ELSE invalidate_walk([S EXCEPT !.lists[c] = NULL], S.lists[c], RetVal)

\* the walk of _invalidate_iterators_at_or_after from the link after prev
RECURSIVE invalidate_from_walk(_, _, _, _, _)
invalidate_from_walk(S, c, prev, pos, fuel) ==
    LET curr == IF prev = NULL THEN S.lists[c] ELSE S.its[prev].next IN
    IF curr = NULL \/ fuel = 0 THEN S
    ELSE IF S.its[curr].index >= pos
    THEN LET A == IF prev = NULL THEN [S EXCEPT !.lists[c] = S.its[curr].next]
                  ELSE [S EXCEPT !.its[prev].next = S.its[curr].next]
         IN invalidate_from_walk([A EXCEPT !.its[curr].container = NULL,
                                           !.its[curr].next = NULL],
                                 c, prev, pos, fuel - 1)
    ELSE invalidate_from_walk(S, c, curr, pos, fuel - 1)

\* _invalidate_iterators_at_or_after sparing the iterators at pos itself
_invalidate_iterators_after(S, c, pos) ==
    IF S.level = 0 THEN S
    ELSE invalidate_from_walk(S, c, NULL, pos + 1, RetVal)

\* _invalidate_iterators_at_or_after that also cuts size() down to pos when it
\* unlinks an iterator
_invalidate_iterators_truncating(S, c, pos) ==
    IF S.level = 0 THEN S
    ELSE LET W == invalidate_from_walk(S, c, NULL, pos, RetVal) IN
         IF W.lists = S.lists THEN W ELSE [W EXCEPT !.size = pos]

\* c->_invalidate_iterators_at_or_after(pos)
_invalidate_iterators_at_or_after(S, c, pos) ==
    IF S.level = 0 THEN S
    ELSE invalidate_from_walk(S, c, NULL, pos, RetVal)

\* update_page_cache() of iterator x
update_page_cache(S, x) ==
    LET c == S.its[x].m_container
        index == S.its[x].m_index
    IN IF c = NULL \/ index >= SizeOf(S, c)
       THEN [S EXCEPT !.its[x].m_current_page = NULL,
                      !.its[x].m_page_element_index = 0]
       ELSE LET pe == get_page_and_element_indices(index)
                table == TableOf(S, c)
            IN [S EXCEPT !.its[x].m_current_page =
                             IF pe[1] + 1 \in 1..Len(table)
                             THEN table[pe[1] + 1] ELSE NULL,
                         !.its[x].m_page_element_index = pe[2]]

\* basic_iterator(container, index) constructs iterator object x
basic_iterator(S, x, container, index) ==
    LET A == [S EXCEPT !.its[x] = [NoNode EXCEPT !.bound = TRUE,
                                                 !.m_container = container,
                                                 !.m_index = index,
                                                 !.index = index]]
        B == IF container # NULL THEN _adopt_iterator(A, container, x) ELSE A
    IN update_page_cache(B, x)

\* basic_iterator(const basic_iterator& other) constructs iterator object x
basic_iterator_copy(S, x, other) ==
    LET A == [S EXCEPT !.its[x] = [NoNode EXCEPT !.bound = TRUE,
                                                 !.m_container = S.its[other].m_container,
                                                 !.m_index = S.its[other].m_index,
                                                 !.index = S.its[other].index]]
        B == IF A.its[x].m_container # NULL
             THEN _adopt_iterator(A, A.its[x].m_container, x) ELSE A
    IN update_page_cache(B, x)

\* basic_iterator(basic_iterator&& other) constructs iterator object x
basic_iterator_move(S, x, other) ==
    LET A == [S EXCEPT !.its[x] = [NoNode EXCEPT !.bound = TRUE,
                                                 !.m_container = S.its[other].m_container,
                                                 !.m_index = S.its[other].m_index,
                                                 !.index = S.its[other].index]]
        c == A.its[x].m_container
        B == IF c # NULL THEN _orphan_iterator(_adopt_iterator(A, c, x), c, other) ELSE A
        D == [B EXCEPT !.its[other].m_container = NULL, !.its[other].m_index = 0]
    IN update_page_cache(D, x)

\* operator=(const basic_iterator&) that adopts this without orphaning it first
basic_iterator_assign_no_orphan(S, x, other) ==
    IF x = other THEN S
    ELSE LET B == [S EXCEPT !.its[x].m_container = S.its[other].m_container,
                            !.its[x].m_index = S.its[other].m_index,
                            !.its[x].index = S.its[other].index]
             c == B.its[x].m_container
             D == IF c # NULL THEN _adopt_iterator(B, c, x) ELSE B
         IN update_page_cache(D, x)

\* x = other (operator=(const basic_iterator&))
basic_iterator_assign(S, x, other) ==
    IF x = other THEN S
    ELSE LET A == IF S.its[x].m_container # NULL
                  THEN _orphan_iterator(S, S.its[x].m_container, x) ELSE S
             B == [A EXCEPT !.its[x].m_container = A.its[other].m_container,
                            !.its[x].m_index = A.its[other].m_index,
                            !.its[x].index = IF S.level > 0
                                             THEN A.its[other].index ELSE A.its[x].index]
             c == B.its[x].m_container
             D == IF c # NULL THEN _adopt_iterator(B, c, x) ELSE B
         IN update_page_cache(D, x)

\* x = std::move(other) (operator=(basic_iterator&&))
basic_iterator_move_assign(S, x, other) ==
    IF x = other THEN S
    ELSE LET A == IF S.its[x].m_container # NULL
                  THEN _orphan_iterator(S, S.its[x].m_container, x) ELSE S
             B == [A EXCEPT !.its[x].m_container = A.its[other].m_container,
                            !.its[x].m_index = A.its[other].m_index,
                            !.its[x].index = IF S.level > 0
                                             THEN A.its[other].index ELSE A.its[x].index]
             c == B.its[x].m_container
             D == IF c # NULL THEN _orphan_iterator(_adopt_iterator(B, c, x), c, other)
                  ELSE B
             E == [D EXCEPT !.its[other].m_container = NULL, !.its[other].m_index = 0]
         IN update_page_cache(E, x)

\* ~basic_iterator() ends iterator object x
basic_iterator_dtor(S, x) ==
    LET A == IF S.its[x].m_container # NULL
             THEN _orphan_iterator(S, S.its[x].m_container, x) ELSE S
    IN [A EXCEPT !.its[x] = NoNode]

\* the fault _verify_valid raises on an iterator with fields it ("none": it
\* passes)
_verify_valid(S, it) ==
    IF it.m_container = NULL THEN "assert_iterator_no_container"
    ELSE IF it.container # it.m_container THEN "assert_iterator_invalidated"
    ELSE IF it.m_index > SizeOf(S, it.m_container) THEN "assert_iterator_out_of_range"
    ELSE "none"

\* CHUNKED_VEC_VERIFY_ITERATOR(iter) on iterator object x
VERIFY_ITERATOR(S, x) ==
    IF S.level = 0 \/ _verify_valid(S, S.its[x]) = "none" THEN S
    ELSE Fail(S, _verify_valid(S, S.its[x]))

\* operator* without its own range assertion, relying on _verify_valid
operator_star_verify_only(S, it) ==
    LET v == IF S.level > 0 THEN _verify_valid(S, it) ELSE "none"
        p == it.m_current_page
    IN IF v # "none" THEN [err |-> v, value |-> NoObj]
       ELSE IF p = NULL THEN [err |-> "assert_invalid_page_cache", value |-> NoObj]
       ELSE IF p \notin PageIds \/ S.heap[p] = <<>>
       THEN [err |-> "read_freed_page", value |-> NoObj]
       ELSE [err |-> "none", value |-> S.heap[p][it.m_page_element_index + 1]]

\* operator* on an iterator with fields it: the fault it raises, or the
\* element it reads; reading through a cached page that was freed is undefined
operator_star(S, it) ==
    LET v == IF S.level > 0 THEN _verify_valid(S, it) ELSE "none"
        p == it.m_current_page
    IN IF v # "none" THEN [err |-> v, value |-> NoObj]
       ELSE IF ~(it.m_container # NULL /\ it.m_index < SizeOf(S, it.m_container))
       THEN [err |-> "assert_iterator_out_of_range", value |-> NoObj]
       ELSE IF p = NULL THEN [err |-> "assert_invalid_page_cache", value |-> NoObj]
       ELSE IF p \notin PageIds \/ S.heap[p] = <<>>
       THEN [err |-> "read_freed_page", value |-> NoObj]
       ELSE [err |-> "none", value |-> S.heap[p][it.m_page_element_index + 1]]

\* operator++ that wraps the cached offset at the end of a page and never
\* recomputes the cached page pointer
increment_same_page(S, x) ==
    LET V == VERIFY_ITERATOR(S, x)
    IN IF V.err # "none" THEN V
       ELSE [V EXCEPT !.its[x].m_index = S.its[x].m_index + 1,
                      !.its[x].m_page_element_index =
                          (S.its[x].m_page_element_index + 1) % PAGE_SIZE,
                      !.its[x].index = S.its[x].m_index + 1]

\* operator++ of iterator x; a failed verification ends the call
increment(S, x) ==
    LET V == VERIFY_ITERATOR(S, x)
        A == [V EXCEPT !.its[x].m_index = S.its[x].m_index + 1,
                       !.its[x].m_page_element_index = S.its[x].m_page_element_index + 1,
                       !.its[x].index = IF S.level > 0
                                        THEN S.its[x].m_index + 1 ELSE S.its[x].index]
    IN IF V.err # "none" THEN V
       ELSE IF A.its[x].m_page_element_index >= PAGE_SIZE THEN update_page_cache(A, x)
       ELSE IF A.its[x].m_index >= SizeOf(A, A.its[x].m_container)
       THEN [A EXCEPT !.its[x].m_current_page = NULL,
                      !.its[x].m_page_element_index = 0]
       ELSE A

\* CHUNKED_VEC_VERIFY_ITERATOR_RANGE(first, last)
VERIFY_ITERATOR_RANGE(S, first_it, last_it) ==
    IF S.level = 0 THEN S
    ELSE LET A == VERIFY_ITERATOR(VERIFY_ITERATOR(S, first_it), last_it)
             B == IF S.its[first_it].m_container # S.its[last_it].m_container
                  THEN Fail(A, "assert_iterators_from_different_containers") ELSE A
         IN IF S.its[first_it].m_index > S.its[last_it].m_index
            THEN Fail(B, "assert_invalid_iterator_range") ELSE B

\* operator== of iterators with fields x and y
iter_equal(x, y) == x.m_container = y.m_container /\ x.m_index = y.m_index

\* ------------------------------------------------------ growth policy
max_page_capacity ==
    LET MAX_POINTERS == SIZE_MAX \div PtrBytes IN
    IF MAX_POINTERS > SAFETY_MARGIN THEN MAX_POINTERS - SAFETY_MARGIN ELSE MAX_POINTERS

\* calculate_page_growth without the geometric growth
calculate_page_growth_exact(old_capacity, pages_needed) == pages_needed

calculate_page_growth(old_capacity, pages_needed) ==
    LET max_capacity == max_page_capacity
        geometric == Wrap(old_capacity + old_capacity \div GROWTH_FACTOR_DENOMINATOR)
    IN IF old_capacity > Wrap(max_capacity - old_capacity \div GROWTH_FACTOR_DENOMINATOR + SIZE_MAX + 1)
       THEN max_capacity
       ELSE IF geometric < pages_needed THEN pages_needed ELSE geometric

\* ensure_page_capacity not copying the old table's pages into the new one
ensure_page_capacity_fresh(S, pages_needed) ==
    IF pages_needed <= S.page_capacity THEN S
    ELSE LET new_page_capacity ==
                 IF S.page_capacity = 0
                 THEN (IF pages_needed > 0 THEN pages_needed ELSE 1)
                 ELSE calculate_page_growth(S.page_capacity, pages_needed)
         IN [S EXCEPT !.pages = [i \in 1..new_page_capacity |-> NULL],
                      !.page_capacity = new_page_capacity,
                      !.realloc = TRUE]

ensure_page_capacity(S, pages_needed) ==
    IF pages_needed <= S.page_capacity THEN S
    ELSE LET new_page_capacity ==
                 IF S.page_capacity = 0
                 THEN (IF pages_needed > 0 THEN pages_needed ELSE 1)
                 ELSE calculate_page_growth(S.page_capacity, pages_needed)
         IN [S EXCEPT !.pages = [i \in 1..new_page_capacity |->
                                     IF i <= S.page_count THEN S.pages[i] ELSE NULL],
                      !.page_capacity = new_page_capacity,
                      !.realloc = TRUE]

FreePages(h) == {p \in PageIds : h[p] = <<>>}
\* CHUNKED_VEC_ALLOC(PAGE_SIZE * sizeof(T), ...): a page not in use
AllocPage(h) == CHOOSE p \in FreePages(h) : \A q \in FreePages(h) : p <= q

\* allocate_page that never raises m_page_count
allocate_page_keep_count(S, page_idx) ==
    IF ~(page_idx < S.page_capacity) THEN Fail(S, "assert_page_idx_lt_capacity")
    ELSE IF FreePages(S.heap) = {} THEN [S EXCEPT !.oom = TRUE]
    ELSE LET p == AllocPage(S.heap)
             A == IF S.pages[page_idx + 1] # NULL
                  THEN Fail(S, "assert_page_not_allocated") ELSE S
         IN [A EXCEPT !.pages[page_idx + 1] = p,
                      !.heap[p] = [k \in 1..PAGE_SIZE |-> NoObj]]

allocate_page(S, page_idx) ==
    LET A == IF ~(page_idx < S.page_capacity) THEN Fail(S, "assert_page_idx_lt_capacity")
             ELSE IF S.pages[page_idx + 1] # NULL THEN Fail(S, "assert_page_not_allocated")
             ELSE S
    IN IF ~(page_idx < S.page_capacity) THEN Fail(A, "write_outside_table")
       ELSE IF FreePages(S.heap) = {} THEN [A EXCEPT !.oom = TRUE]
       ELSE LET p == AllocPage(S.heap) IN
            [A EXCEPT !.pages[page_idx + 1] = p,
                      !.heap[p] = [k \in 1..PAGE_SIZE |-> NoObj],
                      !.page_count = IF page_idx >= S.page_count
                                     THEN page_idx + 1 ELSE S.page_count]

deallocate_page(S, page_idx) ==
    LET A == IF ~(page_idx < S.page_count) THEN Fail(S, "assert_page_idx_lt_count") ELSE S
        p == PageAt(S, page_idx)
    IN IF p # NULL
       THEN LET B == IF \E k \in 1..PAGE_SIZE : S.heap[p][k] # NoObj
                     THEN Fail(A, "free_live_page") ELSE A
            IN [B EXCEPT !.heap[p] = <<>>, !.pages[page_idx + 1] = NULL]
       ELSE A

RECURSIVE deallocate_pages_from(_, _, _)
deallocate_pages_from(S, i, n) ==
    IF i >= n THEN S ELSE deallocate_pages_from(deallocate_page(S, i), i + 1, n)

\* deallocate_page_array leaving m_page_count as it was
deallocate_page_array_count(S) ==
    LET A == IF S.pages # <<>>
             THEN [deallocate_pages_from(S, 0, S.page_count) EXCEPT !.pages = <<>>]
             ELSE S
    IN [A EXCEPT !.page_capacity = 0]

deallocate_page_array(S) ==
    LET A == IF S.pages # <<>>
             THEN [deallocate_pages_from(S, 0, S.page_count) EXCEPT !.pages = <<>>]
             ELSE S
    IN [A EXCEPT !.page_capacity = 0, !.page_count = 0]

ensure_capacity_for_one_more(S) ==
    LET page_idx == S.size \div PAGE_SIZE IN
    IF page_idx >= S.page_count
    THEN allocate_page(ensure_page_capacity(S, page_idx + 1), page_idx)
    ELSE S

capacity(S) == Wrap(S.page_count * PAGE_SIZE)

RECURSIVE allocate_pages(_, _, _)
allocate_pages(S, i, pages_needed) ==
    IF i >= pages_needed \/ S.oom THEN S
    ELSE allocate_pages(allocate_page(S, i), i + 1, pages_needed)

reserve(S, new_capacity) ==
    IF new_capacity <= capacity(S) THEN S
    ELSE LET pages_needed == Wrap(new_capacity + PAGE_SIZE - 1) \div PAGE_SIZE
             A == ensure_page_capacity(S, pages_needed)
         IN allocate_pages(A, A.page_count, pages_needed)

\* shrink_to_fit lowering m_page_count without freeing a page
shrink_to_fit_leak(S) ==
    LET pages_needed == Wrap(S.size + PAGE_SIZE - 1) \div PAGE_SIZE
    IN [S EXCEPT !.page_count = pages_needed]

\* shrink_to_fit rounding the pages it keeps down
shrink_to_fit_floor(S) ==
    LET pages_needed == S.size \div PAGE_SIZE
        A == deallocate_pages_from(S, pages_needed, S.page_count)
    IN [A EXCEPT !.page_count = pages_needed]

shrink_to_fit(S) ==
    LET pages_needed == Wrap(S.size + PAGE_SIZE - 1) \div PAGE_SIZE
        A == deallocate_pages_from(S, pages_needed, S.page_count)
    IN [A EXCEPT !.page_count = pages_needed]

\* ------------------------------------------------- element lifecycle
\* n slots of one page from elem_idx on: dod::destruct each (call), or skip
\* the destructor calls of a trivially destructible T
RECURSIVE destruct_run(_, _, _, _, _)
destruct_run(S, page_idx, elem_idx, n, call) ==
    IF n = 0 THEN S
    ELSE destruct_run(IF call THEN destruct(S, page_idx, elem_idx)
                      ELSE abandon(S, page_idx, elem_idx),
                      page_idx, elem_idx + 1, n - 1, call)

\* the page-by-page destroy loop of shrink_to_size and erase(first, last)
RECURSIVE destroy_loop(_, _, _, _)
destroy_loop(S, start_idx, elements_to_destroy, call) ==
    IF elements_to_destroy = 0 THEN S
    ELSE LET page_idx == start_idx \div PAGE_SIZE
             start_elem_idx == start_idx % PAGE_SIZE
             elements_in_page == PAGE_SIZE - start_elem_idx
             elements_to_destroy_in_page == Min(elements_to_destroy, elements_in_page)
         IN destroy_loop(destruct_run(S, page_idx, start_elem_idx,
                                      elements_to_destroy_in_page, call),
                         start_idx + elements_to_destroy_in_page,
                         elements_to_destroy - elements_to_destroy_in_page, call)

RECURSIVE clear_loop(_, _, _)
clear_loop(S, page_idx, remaining_elements) ==
    IF ~(page_idx < S.page_count /\ remaining_elements > 0) THEN S
    ELSE LET elements_in_this_page == Min(remaining_elements, PAGE_SIZE) IN
         clear_loop(destruct_run(S, page_idx, 0, elements_in_this_page, ~trivial),
                    page_idx + 1, remaining_elements - elements_in_this_page)

\* clear giving the pages back as well
clear_pages(S) ==
    _invalidate_all_iterators(
        deallocate_page_array([clear_loop(S, 0, S.size) EXCEPT !.size = 0]), S.this)

clear(S) ==
    _invalidate_all_iterators([clear_loop(S, 0, S.size) EXCEPT !.size = 0], S.this)

\* emplace_back invalidating every iterator, as a reallocating push_back of a
\* contiguous vector does
emplace_back_invalidating(S, value) ==
    LET A == ensure_capacity_for_one_more(S)
        pe == get_page_and_element_indices(A.size)
    IN IF A.oom THEN A
       ELSE _invalidate_all_iterators(
                [construct(A, pe[1], pe[2], value) EXCEPT !.size = A.size + 1], S.this)

emplace_back(S, value) ==
    LET A == ensure_capacity_for_one_more(S)
        pe == get_page_and_element_indices(A.size)
    IN IF A.oom THEN A
       ELSE [construct(A, pe[1], pe[2], value) EXCEPT !.size = A.size + 1]

push_back(S, value) == emplace_back(S, value)

\* pop_back ending the lifetime of the first element, not the last
pop_back_front(S) ==
    LET A == IF S.size > 0 THEN S ELSE Fail(S, "assert_pop_empty")
        B == [A EXCEPT !.size = Wrap(S.size - 1 + SIZE_MAX + 1)]
        C == IF trivial THEN abandon(B, 0, 0) ELSE destruct(B, 0, 0)
    IN _invalidate_iterators_at_or_after(C, S.this, C.size)

pop_back(S) ==
    LET A == IF S.size > 0 THEN S ELSE Fail(S, "assert_pop_empty")
        B == [A EXCEPT !.size = Wrap(S.size - 1 + SIZE_MAX + 1)]
        pe == get_page_and_element_indices(B.size)
        C == IF trivial THEN abandon(B, pe[1], pe[2]) ELSE destruct(B, pe[1], pe[2])
    IN _invalidate_iterators_at_or_after(C, S.this, C.size)

\* one page segment of bulk_construct_with_value / bulk_construct_default
RECURSIVE construct_run(_, _, _, _, _)
construct_run(S, page_idx, elem_idx, n, value) ==
    IF n = 0 THEN S
    ELSE construct_run(IF trivial THEN assign_trivial(S, page_idx, elem_idx, value)
                       ELSE construct(S, page_idx, elem_idx, value),
                       page_idx, elem_idx + 1, n - 1, value)

RECURSIVE bulk_construct_with_value(_, _, _, _)
bulk_construct_with_value(S, start_idx, end_idx, value) ==
    IF start_idx >= end_idx THEN S
    ELSE LET page_idx == start_idx \div PAGE_SIZE
             start_elem_idx == start_idx % PAGE_SIZE
             elements_remaining == end_idx - start_idx
             elements_in_page == PAGE_SIZE - start_elem_idx
             elements_to_construct == Min(elements_remaining, elements_in_page)
         IN bulk_construct_with_value(
                construct_run(S, page_idx, start_elem_idx, elements_to_construct, value),
                start_idx + elements_to_construct, end_idx, value)

\* bulk_construct_default constructing nothing
bulk_construct_default_none(S, start_idx, end_idx) == S

\* memset 0 / T default_value{} / placement new T(): all leave T{} in the slot
bulk_construct_default(S, start_idx, end_idx) ==
    bulk_construct_with_value(S, start_idx, end_idx, DefaultT)

\* shrink_to_size destroying nothing
shrink_to_size_none(S, new_size) == S

\* shrink_to_size destroying the first element beyond the new size only
shrink_to_size_one(S, new_size) ==
    destroy_loop(S, new_size, Min(1, S.size - new_size), ~trivial)

shrink_to_size(S, new_size) == destroy_loop(S, new_size, S.size - new_size, ~trivial)

expand_to_size(S, new_size) ==
    LET A == reserve(S, new_size) IN
    IF A.oom THEN A ELSE bulk_construct_default(A, A.size, new_size)

expand_to_size_value(S, new_size, value) ==
    LET A == reserve(S, new_size) IN
    IF A.oom THEN A ELSE bulk_construct_with_value(A, A.size, new_size, value)

resize(S, count) ==
    LET A == IF count < S.size THEN shrink_to_size(S, count)
             ELSE IF count > S.size THEN expand_to_size(S, count)
             ELSE S
        B == [A EXCEPT !.size = count]
    IN _invalidate_iterators_at_or_after(B, S.this, Min(B.size, count))

resize_value(S, count, value) ==
    LET A == IF count < S.size THEN shrink_to_size(S, count)
             ELSE IF count > S.size THEN expand_to_size_value(S, count, value)
             ELSE S
        B == [A EXCEPT !.size = count]
    IN _invalidate_iterators_at_or_after(B, S.this, Min(B.size, count))

\* ------------------------------------------------------------ erase engine
\* dod::construct<T>(&dst[..], std::move(src[..])); dod::destruct(&src[..])
move_element(S, src_page, src_elem, dst_page, dst_elem) ==
    LET v == SlotAt(S, src_page, src_elem)
        A == IF v = NoObj THEN Fail(S, "move_from_raw") ELSE S
    IN destruct(construct(A, dst_page, dst_elem, v), src_page, src_elem)

RECURSIVE move_batch(_, _, _, _, _, _, _)
move_batch(S, src_page, src_elem, dst_page, dst_elem, i, n) ==
    IF i >= n THEN S
    ELSE move_batch(move_element(S, src_page, src_elem + i, dst_page, dst_elem + i),
                    src_page, src_elem, dst_page, dst_elem, i + 1, n)

\* elements_to_move_in_batch not limited by the destination page
elements_to_move_in_batch_src(elements_to_move, src_idx, dst_idx) ==
    LET src_elements_in_page == PAGE_SIZE - (src_idx % PAGE_SIZE)
    IN Min(elements_to_move, src_elements_in_page)

elements_to_move_in_batch(elements_to_move, src_idx, dst_idx) ==
    LET src_elements_in_page == PAGE_SIZE - (src_idx % PAGE_SIZE)
        dst_elements_in_page == PAGE_SIZE - (dst_idx % PAGE_SIZE)
    IN Min(elements_to_move, Min(src_elements_in_page, dst_elements_in_page))

\* the shift loop shared by erase(pos) and erase(first, last)
RECURSIVE shift_loop(_, _, _, _)
shift_loop(S, src_idx, dst_idx, elements_to_move) ==
    IF elements_to_move = 0 THEN S
    ELSE LET n == elements_to_move_in_batch(elements_to_move, src_idx, dst_idx)
         IN shift_loop(move_batch(S, src_idx \div PAGE_SIZE, src_idx % PAGE_SIZE,
                                  dst_idx \div PAGE_SIZE, dst_idx % PAGE_SIZE, 0, n),
                       src_idx + n, dst_idx + n, elements_to_move - n)

\* erase(const_iterator pos); a failed assertion on pos ends the call
erase(S, pos) ==
    LET V == VERIFY_ITERATOR(S, pos)
        W == IF S.its[pos].m_container # S.this
             THEN Fail(V, "assert_iterator_from_different_container") ELSE V
        X == IF ~(S.its[pos].m_index < S.size)
             THEN Fail(W, "assert_iterator_out_of_range") ELSE W
        erase_idx == S.its[pos].m_index
        pe == get_page_and_element_indices(erase_idx)
        A == destruct(X, pe[1], pe[2])
        B == shift_loop(A, erase_idx + 1, erase_idx, S.size - 1 - erase_idx)
        C == [B EXCEPT !.size = S.size - 1]
        D == _invalidate_iterators_at_or_after(C, S.this, erase_idx)
    IN IF X.err # "none" THEN X
       ELSE basic_iterator(D, RetVal, S.this, erase_idx)

\* erase(first, last) not closing the gap it made
erase_range_gap(S, first_it, last_it) ==
    LET V == VERIFY_ITERATOR_RANGE(S, first_it, last_it)
        X == IF ~(S.its[last_it].m_index <= S.size)
             THEN Fail(V, "assert_iterator_out_of_range") ELSE V
        first_idx == S.its[first_it].m_index
        last_idx == S.its[last_it].m_index
        erase_count == last_idx - first_idx
        A == destroy_loop(X, first_idx, erase_count, TRUE)
        C == [A EXCEPT !.size = S.size - erase_count]
        D == _invalidate_iterators_at_or_after(C, S.this, first_idx)
    IN IF X.err # "none" THEN X
       ELSE IF iter_equal(S.its[first_it], S.its[last_it])
       THEN basic_iterator(X, RetVal, S.this, first_idx)
       ELSE basic_iterator(D, RetVal, S.this, first_idx)

\* erase(first, last) without the early return for an empty range
erase_range_always(S, first_it, last_it) ==
    LET V == VERIFY_ITERATOR_RANGE(S, first_it, last_it)
        X == IF ~(S.its[last_it].m_index <= S.size)
             THEN Fail(V, "assert_iterator_out_of_range") ELSE V
        first_idx == S.its[first_it].m_index
        last_idx == S.its[last_it].m_index
        erase_count == last_idx - first_idx
        A == destroy_loop(X, first_idx, erase_count, TRUE)
        B == shift_loop(A, last_idx, first_idx, S.size - last_idx)
        C == [B EXCEPT !.size = S.size - erase_count]
        D == _invalidate_iterators_at_or_after(C, S.this, first_idx)
    IN IF X.err # "none" THEN X
       ELSE basic_iterator(D, RetVal, S.this, first_idx)

\* erase(first, last) taking a range with first behind last for an empty one
erase_range_lenient(S, first_it, last_it) ==
    LET V == VERIFY_ITERATOR(VERIFY_ITERATOR(S, first_it), last_it)
        W == IF S.its[first_it].m_container # S.its[last_it].m_container
             THEN Fail(V, "assert_iterators_from_different_containers") ELSE V
        X == IF ~(S.its[last_it].m_index <= S.size)
             THEN Fail(W, "assert_iterator_out_of_range") ELSE W
        first_idx == S.its[first_it].m_index
        last_idx == S.its[last_it].m_index
        erase_count == last_idx - first_idx
        A == destroy_loop(X, first_idx, erase_count, TRUE)
        B == shift_loop(A, last_idx, first_idx, S.size - last_idx)
        C == [B EXCEPT !.size = S.size - erase_count]
        D == _invalidate_iterators_at_or_after(C, S.this, first_idx)
    IN IF X.err # "none" THEN X
       ELSE IF first_idx >= last_idx
       THEN basic_iterator(X, RetVal, S.this, first_idx)
       ELSE basic_iterator(D, RetVal, S.this, first_idx)

\* erase(const_iterator first, const_iterator last); a failed assertion on
\* first or last ends the call
erase_range(S, first_it, last_it) ==
    LET V == VERIFY_ITERATOR_RANGE(S, first_it, last_it)
        X == IF ~(S.its[last_it].m_index <= S.size)
             THEN Fail(V, "assert_iterator_out_of_range") ELSE V
        first_idx == S.its[first_it].m_index
        last_idx == S.its[last_it].m_index
        erase_count == last_idx - first_idx
        A == destroy_loop(X, first_idx, erase_count, TRUE)
        B == shift_loop(A, last_idx, first_idx, S.size - last_idx)
        C == [B EXCEPT !.size = S.size - erase_count]
        D == _invalidate_iterators_at_or_after(C, S.this, first_idx)
    IN IF X.err # "none" THEN X
       ELSE IF iter_equal(S.its[first_it], S.its[last_it])
       THEN basic_iterator(X, RetVal, S.this, first_idx)
       ELSE basic_iterator(D, RetVal, S.this, first_idx)

\* erase_unsorted filling the hole with the next element, not the last
erase_unsorted_next(S, pos) ==
    LET V == VERIFY_ITERATOR(S, pos)
        W == IF S.its[pos].m_container # S.this
             THEN Fail(V, "assert_iterator_from_different_container") ELSE V
        X == IF ~(S.its[pos].m_index < S.size)
             THEN Fail(W, "assert_iterator_out_of_range") ELSE W
        erase_idx == S.its[pos].m_index
        erase_page == erase_idx \div PAGE_SIZE
        erase_elem == erase_idx % PAGE_SIZE
        last_page == (erase_idx + 1) \div PAGE_SIZE
        last_elem == (erase_idx + 1) % PAGE_SIZE
        A == destruct(X, erase_page, erase_elem)
        B == move_element(A, last_page, last_elem, erase_page, erase_elem)
        C == [B EXCEPT !.size = S.size - 1]
        D == _invalidate_iterators_at_or_after(C, S.this, erase_idx)
        P == pop_back(X)
    IN IF X.err # "none" THEN X
       ELSE IF erase_idx = S.size - 1
       THEN basic_iterator(P, RetVal, S.this, P.size)
       ELSE basic_iterator(D, RetVal, S.this, erase_idx)

\* erase_unsorted(const_iterator pos); a failed assertion on pos ends the call
erase_unsorted(S, pos) ==
    LET V == VERIFY_ITERATOR(S, pos)
        W == IF S.its[pos].m_container # S.this
             THEN Fail(V, "assert_iterator_from_different_container") ELSE V
        X == IF ~(S.its[pos].m_index < S.size)
             THEN Fail(W, "assert_iterator_out_of_range") ELSE W
        erase_idx == S.its[pos].m_index
        erase_page == erase_idx \div PAGE_SIZE
        erase_elem == erase_idx % PAGE_SIZE
        last_page == (S.size - 1) \div PAGE_SIZE
        last_elem == (S.size - 1) % PAGE_SIZE
        A == destruct(X, erase_page, erase_elem)
        B == move_element(A, last_page, last_elem, erase_page, erase_elem)
        C == [B EXCEPT !.size = S.size - 1]
        D == _invalidate_iterators_at_or_after(C, S.this, erase_idx)
        P == pop_back(X)
    IN IF X.err # "none" THEN X
       ELSE IF erase_idx = S.size - 1
       THEN basic_iterator(P, RetVal, S.this, P.size)
       ELSE basic_iterator(D, RetVal, S.this, erase_idx)

\* ------------------------------------------------ assignment, construction
\* the page-by-page push_back loop of operator=(const chunked_vector&), reading
\* other's pages O (other is a different container: its pages do not change)
RECURSIVE copy_elems(_, _, _, _, _)
copy_elems(S, O, page_idx, elem_idx, elements_in_this_page) ==
    IF elem_idx >= elements_in_this_page \/ S.oom THEN S
    ELSE copy_elems(push_back(S, SlotAt([O EXCEPT !.heap = S.heap], page_idx, elem_idx)),
                    O, page_idx, elem_idx + 1, elements_in_this_page)

RECURSIVE copy_pages(_, _, _, _)
copy_pages(S, O, page_idx, remaining_elements) ==
    IF ~(page_idx < O.page_count /\ remaining_elements > 0) \/ S.oom THEN S
    ELSE LET elements_in_this_page == Min(remaining_elements, PAGE_SIZE) IN
         copy_pages(copy_elems(S, O, page_idx, 0, elements_in_this_page),
                    O, page_idx + 1, remaining_elements - elements_in_this_page)

\* std::memcpy(dst_page, src_page, n * sizeof(T))
RECURSIVE memcpy_page(_, _, _, _, _)
memcpy_page(S, O, page_idx, i, n) ==
    IF i >= n THEN S
    ELSE memcpy_page(assign_trivial(S, page_idx, i,
                                    SlotAt([O EXCEPT !.heap = S.heap], page_idx, i)),
                     O, page_idx, i + 1, n)

RECURSIVE bulk_copy_pages(_, _, _, _)
bulk_copy_pages(S, O, page_idx, remaining_elements) ==
    IF ~(page_idx < O.page_count /\ remaining_elements > 0) THEN S
    ELSE LET elements_in_this_page == Min(remaining_elements, PAGE_SIZE) IN
         bulk_copy_pages(memcpy_page(S, O, page_idx, 0, elements_in_this_page),
                         O, page_idx + 1, remaining_elements - elements_in_this_page)

bulk_copy_from(S, O) == [bulk_copy_pages(S, O, 0, O.size) EXCEPT !.size = O.size]

\* copy assignment taking the other's page table instead of copying elements
copy_assign_shallow(S, O) ==
    LET A == deallocate_page_array(clear(S)) IN
    [A EXCEPT !.pages = O.pages, !.page_count = O.page_count,
              !.page_capacity = O.page_capacity, !.size = O.size]

\* operator=(const chunked_vector& other), this != &other
copy_assign(S, O) ==
    LET A == reserve(_invalidate_all_iterators(clear(S), S.this), O.size) IN
    IF A.oom THEN A
    ELSE IF trivial THEN bulk_copy_from(A, O)
    ELSE copy_pages(A, O, 0, O.size)

RECURSIVE push_all(_, _, _)
push_all(S, init, k) ==
    IF k > Len(init) \/ S.oom THEN S
    ELSE push_all(push_back(S, init[k]), init, k + 1)

\* operator=(std::initializer_list<T>)
init_assign(S, init) ==
    LET A == reserve(_invalidate_all_iterators(clear(S), S.this), Len(init)) IN
    IF A.oom THEN A ELSE push_all(A, init, 1)

\* chunked_vector(std::initializer_list<T>): reserve, then push_back each
init_construct(S, init) ==
    LET A == reserve(S, Len(init)) IN
    IF A.oom THEN A ELSE push_all(A, init, 1)

\* release_all keeping the pages allocated
release_all_keep(S) == _invalidate_all_iterators(clear(S), S.this)

\* ~chunked_vector(), and what operator=(chunked_vector&&) does to this before
\* it takes over other's fields: clear(); deallocate_page_array();
\* _invalidate_all_iterators()
release_all(S) == _invalidate_all_iterators(deallocate_page_array(clear(S)), S.this)

\* the temporaries of the call end: the returned iterator and the arguments
end_of_call(S) ==
    basic_iterator_dtor(basic_iterator_dtor(basic_iterator_dtor(S, RetVal), LastArg), PosArg)

\* ------------------------------------------------------------------ actions
Sizes == 0..MaxSize
ReserveArgs == 0..(MaxSize + 1) \cup {SIZE_MAX}
\* the initializer lists {v, w, v, ...} of the two values, up to MaxInit long
InitLists ==
    {[k \in 1..n |-> IF k % 2 = 1 THEN v ELSE CHOOSE w \in Values : w # v] :
        n \in 0..MaxInit, v \in Values}

\* the record of the call: op(a, b) on container c (with container other),
\* the iterator it returned, the first fault, whether the page table moved
Call(op, c, other, a, b, S, ret) ==
    [op |-> op, c |-> c, other |-> other, a |-> a, b |-> b, ret |-> ret,
     err |-> S.err, realloc |-> S.realloc]

\* the four fields of every container
Fields ==
    [c \in Containers |->
        [pages |-> m_pages[c], page_count |-> m_page_count[c],
         page_capacity |-> m_page_capacity[c], size |-> m_size[c]]]

FieldsOf(S) ==
    [pages |-> S.pages, page_count |-> S.page_count,
     page_capacity |-> S.page_capacity, size |-> S.size]

\* Page addresses carry no meaning beyond equality, so states are kept up to
\* a renaming of the pages: after each call the pages are numbered in the order
\* the page tables name them (then the allocated pages no table names).  ren
\* maps each page's address before the call to its address after it, and a
\* page the call freed to Dangling.
Dangling == CopyPages + 1

\* acc, then the pages table[i], table[i + 1], ... that acc does not hold yet
RECURSIVE Dedup(_, _, _)
Dedup(table, i, acc) ==
    LET rest == {k \in i..Len(table) : table[k] # NULL} IN
    IF rest = {} THEN acc
    ELSE LET j == CHOOSE k \in rest : \A n \in rest : k <= n IN
         IF \E k \in 1..Len(acc) : acc[k] = table[j]
         THEN Dedup(table, j + 1, acc)
         ELSE Dedup(table, j + 1, Append(acc, table[j]))

\* the pages the tables of containers c, c + 1, ... name, after acc
RECURSIVE TableRefs(_, _, _)
TableRefs(F, c, acc) ==
    IF c \notin Containers THEN acc
    ELSE TableRefs(F, c + 1, Dedup(F[c].pages, 1, acc))

PageOrder(F, hp) ==
    Dedup([p \in PageIds |-> IF hp[p] # <<>> THEN p ELSE NULL], 1, TableRefs(F, 1, <<>>))

Renaming(F, hp) ==
    LET order == PageOrder(F, hp) IN
    [p \in PageIds |-> IF \E k \in 1..Len(order) : order[k] = p
                       THEN CHOOSE k \in 1..Len(order) : order[k] = p
                       ELSE Dangling]

Rename(ren, p) == IF p \in PageIds THEN ren[p] ELSE p

\* no call is in progress or waiting to be looked at by the caller
NoCall == [op |-> "none", c |-> 0, other |-> 0, a |-> 0, b |-> 0, err |-> "none",
           realloc |-> FALSE, ren |-> [p \in PageIds |-> p], ret |-> NoNode]

\* store the fields F of all containers with the heap and the registry of S,
\* and record the call
Install(F, S, call) ==
    \E order \in {PageOrder(F, S.heap)} : \E ren \in {Renaming(F, S.heap)} :
    /\ m_pages' = [c \in Containers |->
                      [i \in 1..Len(F[c].pages) |-> Rename(ren, F[c].pages[i])]]
    /\ m_page_count' = [c \in Containers |-> F[c].page_count]
    /\ m_page_capacity' = [c \in Containers |-> F[c].page_capacity]
    /\ m_size' = [c \in Containers |-> F[c].size]
    /\ heap' = [k \in PageIds |-> IF k <= Len(order) THEN S.heap[order[k]] ELSE <<>>]
    /\ m_iterator_list' = S.lists
    /\ iters' = [x \in ItIds |-> [S.its[x] EXCEPT !.m_current_page = Rename(ren, @)]]
    /\ last' = IF call.op = "none" THEN NoCall
               ELSE [op |-> call.op, c |-> call.c, other |-> call.other,
                     a |-> call.a, b |-> call.b, err |-> call.err,
                     realloc |-> call.realloc, ren |-> ren,
                     ret |-> [call.ret EXCEPT !.m_current_page = Rename(ren, @)]]

\* store the fields S into container c
Commit(c, S, call) == Install([Fields EXCEPT ![c] = FieldsOf(S)], S, call)

Empty == [pages |-> <<>>, page_count |-> 0, page_capacity |-> 0, size |-> 0]

\* this takes other's fields, other is left with none (move construction, move
\* assignment); S holds this's fields after it released what it owned
Steal(c, o, S, call) ==
    Install([Fields EXCEPT ![c] = Fields[o], ![o] = Empty], S, call)

Idle == last.op = "none"

CtorDefault(C) ==
    /\ Idle
    /\ \E c \in C :
        /\ ~alive[c]
        /\ alive' = [alive EXCEPT ![c] = TRUE]
        /\ Commit(c, Self(c), Call("ctor", c, 0, 0, 0, Self(c), NoNode))
        /\ UNCHANGED trivial

CtorCount(C, N) ==
    /\ Idle
    /\ \E c \in C, count \in N :
        /\ ~alive[c]
        /\ \E S \in {resize(Self(c), count)} :
            /\ ~S.oom
            /\ alive' = [alive EXCEPT ![c] = TRUE]
            /\ Commit(c, S, Call("ctor_count", c, 0, count, 0, S, NoNode))
            /\ UNCHANGED trivial

CtorCountValue(C, N, V) ==
    /\ Idle
    /\ \E c \in C, count \in N, value \in V :
        /\ ~alive[c]
        /\ \E S \in {resize_value(Self(c), count, value)} :
            /\ ~S.oom
            /\ alive' = [alive EXCEPT ![c] = TRUE]
            /\ Commit(c, S, Call("ctor_count_value", c, 0, count, value, S, NoNode))
            /\ UNCHANGED trivial

CtorInit(C, L) ==
    /\ Idle
    /\ \E c \in C, init \in L :
        /\ ~alive[c]
        /\ \E S \in {init_construct(Self(c), init)} :
            /\ ~S.oom
            /\ alive' = [alive EXCEPT ![c] = TRUE]
            /\ Commit(c, S, Call("ctor_init", c, 0, init, 0, S, NoNode))
            /\ UNCHANGED trivial

CtorCopy(C) ==
    /\ Idle
    /\ \E c \in C, o \in C :
        /\ ~alive[c] /\ alive[o]
        /\ \E S \in {copy_assign(Self(c), Self(o))} :
            /\ ~S.oom
            /\ alive' = [alive EXCEPT ![c] = TRUE]
            /\ Commit(c, S, Call("ctor_copy", c, o, 0, 0, S, NoNode))
            /\ UNCHANGED trivial

CtorMove(C) ==
    /\ Idle
    /\ \E c \in C, o \in C :
        /\ ~alive[c] /\ alive[o]
        /\ \E S \in {_invalidate_all_iterators(Self(c), o)} :
            /\ alive' = [alive EXCEPT ![c] = TRUE]
            /\ Steal(c, o, S, Call("ctor_move", c, o, 0, 0, S, NoNode))
            /\ UNCHANGED trivial

Destroy(C) ==
    /\ Idle
    /\ \E c \in C :
        /\ alive[c]
        /\ \A x \in ItIds : iters[x].m_container # c
        /\ \E S \in {release_all(Self(c))} :
            /\ alive' = [alive EXCEPT ![c] = FALSE]
            /\ Commit(c, S, Call("dtor", c, 0, 0, 0, S, NoNode))
            /\ UNCHANGED trivial

\* copy assignment without the this != &other guard: a container assigned to
\* itself is cleared and then copies its own, now empty, elements
CopyAssignUnguarded(C) ==
    /\ Idle
    /\ \E c \in C, o \in C :
        /\ alive[c] /\ alive[o]
        /\ \E S \in {IF c # o THEN copy_assign(Self(c), Self(o))
                     ELSE _invalidate_all_iterators(clear(Self(c)), c)} :
            /\ ~S.oom
            /\ Commit(c, S, Call("copy_assign", c, o, 0, 0, S, NoNode))
            /\ UNCHANGED <<alive, trivial>>

CopyAssign(C) ==
    /\ Idle
    /\ \E c \in C, o \in C :
        /\ alive[c] /\ alive[o]
        /\ \E S \in {IF c # o THEN copy_assign(Self(c), Self(o)) ELSE Self(c)} :
            /\ ~S.oom
            /\ Commit(c, S, Call("copy_assign", c, o, 0, 0, S, NoNode))
            /\ UNCHANGED <<alive, trivial>>

MoveAssign(C) ==
    /\ Idle
    /\ \E c \in C, o \in C :
        /\ alive[c] /\ alive[o]
        /\ IF c # o
           THEN \E S \in {_invalidate_all_iterators(release_all(Self(c)), o)} :
                    Steal(c, o, S, Call("move_assign", c, o, 0, 0, S, NoNode))
           ELSE Commit(c, Self(c), Call("move_assign", c, o, 0, 0, Self(c), NoNode))
        /\ UNCHANGED <<alive, trivial>>

InitAssign(C, L) ==
    /\ Idle
    /\ \E c \in C, init \in L :
        /\ alive[c]
        /\ \E S \in {init_assign(Self(c), init)} :
            /\ ~S.oom
            /\ Commit(c, S, Call("init_assign", c, 0, init, 0, S, NoNode))
            /\ UNCHANGED <<alive, trivial>>

PushBack(C, V) ==
    /\ Idle
    /\ \E c \in C, value \in V :
        /\ alive[c] /\ m_size[c] < MaxSize
        /\ \E S \in {push_back(Self(c), value)} :
            /\ ~S.oom
            /\ Commit(c, S, Call("push_back", c, 0, value, 0, S, NoNode))
            /\ UNCHANGED <<alive, trivial>>

PopBack(C) ==
    /\ Idle
    /\ \E c \in C :
        /\ alive[c] /\ m_size[c] > 0
        /\ \E S \in {pop_back(Self(c))} :
            /\ Commit(c, S, Call("pop_back", c, 0, 0, 0, S, NoNode))
            /\ UNCHANGED <<alive, trivial>>

Reserve(C, N) ==
    /\ Idle
    /\ \E c \in C, new_capacity \in N :
        /\ alive[c]
        /\ \E S \in {reserve(Self(c), new_capacity)} :
            /\ ~S.oom
            /\ Commit(c, S, Call("reserve", c, 0, new_capacity, 0, S, NoNode))
            /\ UNCHANGED <<alive, trivial>>

ShrinkToFit(C) ==
    /\ Idle
    /\ \E c \in C :
        /\ alive[c]
        /\ \E S \in {shrink_to_fit(Self(c))} :
            /\ Commit(c, S, Call("shrink_to_fit", c, 0, 0, 0, S, NoNode))
            /\ UNCHANGED <<alive, trivial>>

Clear(C) ==
    /\ Idle
    /\ \E c \in C :
        /\ alive[c]
        /\ \E S \in {clear(Self(c))} :
            /\ Commit(c, S, Call("clear", c, 0, 0, 0, S, NoNode))
            /\ UNCHANGED <<alive, trivial>>

Resize(C, N) ==
    /\ Idle
    /\ \E c \in C, count \in N :
        /\ alive[c]
        /\ \E S \in {resize(Self(c), count)} :
            /\ ~S.oom
            /\ Commit(c, S, Call("resize", c, 0, count, 0, S, NoNode))
            /\ UNCHANGED <<alive, trivial>>

ResizeValue(C, N, V) ==
    /\ Idle
    /\ \E c \in C, count \in N, value \in V :
        /\ alive[c]
        /\ \E S \in {resize_value(Self(c), count, value)} :
            /\ ~S.oom
            /\ Commit(c, S, Call("resize_value", c, 0, count, value, S, NoNode))
            /\ UNCHANGED <<alive, trivial>>

\* c.erase(pos) with pos a fresh iterator of c at index i
Erase(C, N) ==
    /\ Idle
    /\ \E c \in C, i \in N :
        /\ alive[c] /\ i < m_size[c]
        /\ \E S \in {erase(basic_iterator(Self(c), PosArg, c, i), PosArg)} :
            /\ Commit(c, end_of_call(S), Call("erase", c, 0, i, 0, S, S.its[RetVal]))
            /\ UNCHANGED <<alive, trivial>>

\* c.erase(first, last) with fresh iterators of c at indices f <= l <= size
EraseRange(C, N) ==
    /\ Idle
    /\ \E c \in C, f \in N, l \in N :
        /\ alive[c] /\ f <= l /\ l <= m_size[c]
        /\ \E S \in {erase_range(basic_iterator(basic_iterator(Self(c), PosArg, c, f),
                                                LastArg, c, l),
                                 PosArg, LastArg)} :
            /\ Commit(c, end_of_call(S), Call("erase_range", c, 0, f, l, S, S.its[RetVal]))
            /\ UNCHANGED <<alive, trivial>>

\* c.erase_unsorted(pos) with pos a fresh iterator of c at index i
EraseUnsorted(C, N) ==
    /\ Idle
    /\ \E c \in C, i \in N :
        /\ alive[c] /\ i < m_size[c]
        /\ \E S \in {erase_unsorted(basic_iterator(Self(c), PosArg, c, i), PosArg)} :
            /\ Commit(c, end_of_call(S),
                      Call("erase_unsorted", c, 0, i, 0, S, S.its[RetVal]))
            /\ UNCHANGED <<alive, trivial>>

\* at(pos) without the range check
at_unchecked(S, pos) ==
    LET pe == get_page_and_element_indices(pos) IN
    [err |-> "none", value |-> SlotAt(S, pe[1], pe[2])]

\* at(size_type pos): the std::out_of_range it throws, or the element
\* (*this)[pos] it returns
at(S, pos) ==
    LET pe == get_page_and_element_indices(pos) IN
    IF pos >= S.size THEN [err |-> "out_of_range", value |-> NoObj]
    ELSE [err |-> "none", value |-> SlotAt(S, pe[1], pe[2])]

\* c.at(pos) inside a try block; b records the element returned
At(C, N) ==
    /\ Idle
    /\ \E c \in C, pos \in N :
        /\ alive[c]
        /\ \E r \in {at(Self(c), pos)} : \E S \in {Fail(Self(c), r.err)} :
            /\ Commit(c, S, Call("at", c, 0, pos, r.value, S, NoNode))
            /\ UNCHANGED <<alive, trivial>>

\* ------------------------------------------------- the caller's iterators
\* the registry and the iterator objects change, the containers do not
Keep(S, call) == Install(Fields, S, call)

\* auto x = c.begin()
ItBegin(C, X) ==
    /\ Idle
    /\ \E c \in C, x \in X :
        /\ alive[c] /\ ~iters[x].bound
        /\ Keep(basic_iterator(Self(c), x, c, 0), NoCall)
        /\ UNCHANGED <<alive, trivial>>

\* auto x = c.end()
ItEnd(C, X) ==
    /\ Idle
    /\ \E c \in C, x \in X :
        /\ alive[c] /\ ~iters[x].bound
        /\ Keep(basic_iterator(Self(c), x, c, m_size[c]), NoCall)
        /\ UNCHANGED <<alive, trivial>>

\* auto x = y
ItCopy(X) ==
    /\ Idle
    /\ \E x \in X, y \in X :
        /\ ~iters[x].bound /\ iters[y].bound
        /\ Keep(basic_iterator_copy(Self(1), x, y), NoCall)
        /\ UNCHANGED <<alive, trivial>>

\* x goes out of scope, no later than the container it is bound to
ItDestroy(X) ==
    /\ Idle
    /\ \E x \in X :
        /\ iters[x].bound
        /\ Keep(basic_iterator_dtor(Self(1), x), NoCall)
        /\ UNCHANGED <<alive, trivial>>

\* ++x on an iterator bound to a container
ItIncrement(X) ==
    /\ Idle
    /\ \E x \in X :
        /\ iters[x].bound /\ iters[x].m_container # NULL
        /\ \E S \in {increment(Self(iters[x].m_container), x)} :
            /\ Keep(S, Call("increment", iters[x].m_container, 0, x, 0, S, S.its[x]))
            /\ UNCHANGED <<alive, trivial>>

\* iterator x; (bound to no container)
ItDefault(X) ==
    /\ Idle
    /\ \E x \in X :
        /\ ~iters[x].bound
        /\ Keep([Self(1) EXCEPT !.its[x] = [NoNode EXCEPT !.bound = TRUE]], NoCall)
        /\ UNCHANGED <<alive, trivial>>

\* *x inside a try block; a records x, b the element read
ItDeref(X) ==
    /\ Idle
    /\ \E x \in X :
        /\ iters[x].bound
        /\ \E r \in {operator_star(Self(1), iters[x])} : \E S \in {Fail(Self(1), r.err)} :
            /\ Keep(S, Call("deref", iters[x].m_container, 0, x, r.value, S, iters[x]))
            /\ UNCHANGED <<alive, trivial>>

\* c.erase(x) with an iterator x the caller holds: pos is constructed from x
\* (the parameter is taken by value); a records x, b the container x was
\* registered with when the call was made (NULL: none)
EraseIt(C, X) ==
    /\ Idle
    /\ \E c \in C, x \in X :
        /\ alive[c] /\ iters[x].bound
        /\ \E S \in {erase(basic_iterator_copy(Self(c), PosArg, x), PosArg)} :
            /\ Commit(c, end_of_call(S), Call("erase_it", c, 0, x, iters[x].container, S, S.its[RetVal]))
            /\ UNCHANGED <<alive, trivial>>

\* c.erase(x, y) with iterators x and y the caller holds; a and b record them
EraseRangeIt(C, X) ==
    /\ Idle
    /\ \E c \in C, x \in X, y \in X :
        /\ alive[c] /\ iters[x].bound /\ iters[y].bound
        /\ \E S \in {erase_range(basic_iterator_copy(
                                      basic_iterator_copy(Self(c), PosArg, x), LastArg, y),
                                  PosArg, LastArg)} :
            /\ Commit(c, end_of_call(S),
                      Call("erase_range_it", c, 0, x, y, S, S.its[RetVal]))
            /\ UNCHANGED <<alive, trivial>>

\* c.erase_unsorted(x) with an iterator x the caller holds; a records x, b the
\* container x was registered with when the call was made
EraseUnsortedIt(C, X) ==
    /\ Idle
    /\ \E c \in C, x \in X :
        /\ alive[c] /\ iters[x].bound
        /\ \E S \in {erase_unsorted(basic_iterator_copy(Self(c), PosArg, x), PosArg)} :
            /\ Commit(c, end_of_call(S),
                      Call("erase_unsorted_it", c, 0, x, iters[x].container, S,
                           S.its[RetVal]))
            /\ UNCHANGED <<alive, trivial>>

\* the record of a call that makes or assigns iterator x from iterator y: c is
\* y's m_container and other the container y was registered with before the
\* call (NULL: none), ret the fields of x after it
ItCall(op, S, x, y) ==
    Call(op, iters[y].m_container, iters[y].container, x, y, S, S.its[x])

\* const_iterator x = y with y an iterator (the converting constructor)
ItConvert(X) ==
    /\ Idle
    /\ \E x \in X, y \in X :
        /\ ~iters[x].bound /\ iters[y].bound
        /\ \E S \in {basic_iterator_copy(Self(1), x, y)} :
            /\ Keep(S, ItCall("it_convert", S, x, y))
            /\ UNCHANGED <<alive, trivial>>

\* auto x = std::move(y)
ItMove(X) ==
    /\ Idle
    /\ \E x \in X, y \in X :
        /\ ~iters[x].bound /\ iters[y].bound
        /\ \E S \in {basic_iterator_move(Self(1), x, y)} :
            /\ Keep(S, ItCall("it_move", S, x, y))
            /\ UNCHANGED <<alive, trivial>>

\* x = y, also with x and y the same object
ItAssign(X) ==
    /\ Idle
    /\ \E x \in X, y \in X :
        /\ iters[x].bound /\ iters[y].bound
        /\ \E S \in {basic_iterator_assign(Self(1), x, y)} :
            /\ Keep(S, ItCall("it_assign", S, x, y))
            /\ UNCHANGED <<alive, trivial>>

\* x = std::move(y), also with x and y the same object
ItMoveAssign(X) ==
    /\ Idle
    /\ \E x \in X, y \in X :
        /\ iters[x].bound /\ iters[y].bound
        /\ \E S \in {basic_iterator_move_assign(Self(1), x, y)} :
            /\ Keep(S, ItCall("it_move_assign", S, x, y))
            /\ UNCHANGED <<alive, trivial>>

\* the caller has looked at the result of the call and goes on
Return ==
    /\ ~Idle
    /\ last' = NoCall
    /\ UNCHANGED <<m_pages, m_page_count, m_page_capacity, m_size, alive, heap, trivial,
                   m_iterator_list, iters>>

\* before any container or iterator is constructed; T is trivial or not, and
\* the allocator has the first pages pages left: the rest of the program holds
\* the others, which never come free
Start(trivial_T, pages) ==
    /\ m_pages = [c \in Containers |-> <<>>]
    /\ m_page_count = [c \in Containers |-> 0]
    /\ m_page_capacity = [c \in Containers |-> 0]
    /\ m_size = [c \in Containers |-> 0]
    /\ alive = [c \in Containers |-> FALSE]
    /\ heap = [p \in PageIds |-> IF p <= pages THEN <<>>
                               ELSE [k \in 1..PAGE_SIZE |-> NoObj]]
    /\ m_iterator_list = [c \in Containers |-> NULL]
    /\ iters = [x \in ItIds |-> NoNode]
    /\ trivial \in trivial_T
    /\ last = NoCall

Init == Start(BOOLEAN, HeapPages)

Next ==
    \/ CtorDefault(Containers)
    \/ CtorCount(Containers, Sizes)
    \/ CtorCountValue(Containers, Sizes, Values)
    \/ CtorInit(Containers, InitLists)
    \/ CtorCopy(Containers)
    \/ CtorMove(Containers)
    \/ Destroy(Containers)
    \/ CopyAssign(Containers)
    \/ MoveAssign(Containers)
    \/ InitAssign(Containers, InitLists)
    \/ PushBack(Containers, Values)
    \/ PopBack(Containers)
    \/ Reserve(Containers, ReserveArgs)
    \/ ShrinkToFit(Containers)
    \/ Clear(Containers)
    \/ Resize(Containers, Sizes)
    \/ ResizeValue(Containers, Sizes, Values)
    \/ Erase(Containers, Sizes)
    \/ EraseRange(Containers, Sizes)
    \/ EraseUnsorted(Containers, Sizes)
    \/ Return

Spec == Init /\ [][Next]_vars

\* one container and the iterators its caller holds
One == {1}

NextIt ==
    \/ CtorInit(One, InitLists)
    \/ Destroy(One)
    \/ PushBack(One, {DefaultT})
    \/ PopBack(One)
    \/ Clear(One)
    \/ Erase(One, Sizes)
    \/ EraseRange(One, Sizes)
    \/ EraseUnsorted(One, Sizes)
    \/ ItBegin(One, Held)
    \/ ItEnd(One, Held)
    \/ ItCopy(Held)
    \/ ItDestroy(Held)
    \/ ItIncrement(Held)
    \/ Return

\* T with a user-provided destructor, as the tests' TestObject
InitIt == Start({FALSE}, HeapPages)

SpecIt == InitIt /\ [][NextIt]_vars

\* two containers built, copied, moved and destroyed, with pages enough for
\* both to hold MaxSize elements
NextCopy ==
    \/ CtorInit(Containers, InitLists)
    \/ CtorCopy(Containers)
    \/ CtorMove(Containers)
    \/ Destroy(Containers)
    \/ CopyAssign(Containers)
    \/ MoveAssign(Containers)
    \/ PushBack(Containers, Values)
    \/ PopBack(Containers)
    \/ Clear(Containers)
    \/ Return

InitCopy == Start(BOOLEAN, CopyPages)

SpecCopy == InitCopy /\ [][NextCopy]_vars

\* the positions at() is called with: inside, at and beyond size(), and the
\* largest size_type
AtArgs == 0..(MaxSize + 1) \cup {SIZE_MAX}

\* two containers grown and shrunk, and read with at()
NextAt ==
    \/ CtorInit(Containers, InitLists)
    \/ Destroy(Containers)
    \/ PushBack(Containers, Values)
    \/ PopBack(Containers)
    \/ Reserve(Containers, Sizes)
    \/ Clear(Containers)
    \/ At(Containers, AtArgs)
    \/ Return

SpecAt == Init /\ [][NextAt]_vars

\* the page counts the page table is asked to hold: small ones, those around
\* the overflow guard of calculate_page_growth, and those around
\* max_page_capacity up to the most that reserve can ask for
GrowthArgs ==
    (0..4) \cup {max_page_capacity \div 2, max_page_capacity - 1,
                max_page_capacity, max_page_capacity + 1,
                SIZE_MAX \div PAGE_SIZE}
       \cup {n \in 1..max_page_capacity :
                n + n \div GROWTH_FACTOR_DENOMINATOR
                    \in (max_page_capacity - 2)..(max_page_capacity + 2)}

\* ensure_page_capacity(pages_needed), the step of reserve and of push_back
\* that sizes the page table, before any page is allocated; b records the
\* page_capacity before the step
EnsurePageCapacity(C, N) ==
    /\ Idle
    /\ \E c \in C, pages_needed \in N :
        /\ alive[c]
        /\ \E S \in {ensure_page_capacity(Self(c), pages_needed)} :
            /\ Commit(c, S, Call("ensure_page_capacity", c, 0, pages_needed,
                                 m_page_capacity[c], S, NoNode))
            /\ UNCHANGED <<alive, trivial>>

\* one container whose page table is grown, and shrunk to nothing again
NextGrowth ==
    \/ CtorDefault(One)
    \/ Destroy(One)
    \/ EnsurePageCapacity(One, GrowthArgs)
    \/ Return

InitGrowth == Start({TRUE}, HeapPages)

SpecGrowth == InitGrowth /\ [][NextGrowth]_vars

\* one container of TestObject elements that grows, is cleared and gives pages
\* back, and the iterators its caller holds and dereferences
NextGrow ==
    \/ CtorInit(One, InitLists)
    \/ PushBack(One, Values)
    \/ Clear(One)
    \/ Reserve(One, Sizes)
    \/ ShrinkToFit(One)
    \/ Resize(One, Sizes)
    \/ ItBegin(One, Held)
    \/ ItEnd(One, Held)
    \/ ItIncrement(Held)
    \/ ItDestroy(Held)
    \/ ItDeref(Held)
    \/ Return

SpecGrow == InitIt /\ [][NextGrow]_vars

\* one container of TestObject elements that shrinks and is erased from, and
\* the iterators its caller holds and dereferences
NextShrink ==
    \/ CtorInit(One, InitLists)
    \/ PushBack(One, {DefaultT})
    \/ PopBack(One)
    \/ Resize(One, Sizes)
    \/ Erase(One, Sizes)
    \/ EraseRange(One, Sizes)
    \/ EraseUnsorted(One, Sizes)
    \/ ItBegin(One, Held)
    \/ ItEnd(One, Held)
    \/ ItIncrement(Held)
    \/ ItDestroy(Held)
    \/ ItDeref(Held)
    \/ Return

SpecShrink == InitIt /\ [][NextShrink]_vars

\* two containers of TestObject elements assigned and moved to one another,
\* and the iterators their caller holds and dereferences
NextAssign ==
    \/ CtorInit(Containers, InitLists)
    \/ CtorMove(Containers)
    \/ CopyAssign(Containers)
    \/ MoveAssign(Containers)
    \/ InitAssign(Containers, InitLists)
    \/ ItBegin(Containers, Held)
    \/ ItEnd(Containers, Held)
    \/ ItDestroy(Held)
    \/ ItDeref(Held)
    \/ Return

SpecAssign == InitIt /\ [][NextAssign]_vars

\* two containers of TestObject elements, and the iterators their caller
\* holds and passes to erase and erase_unsorted of either container
NextArg ==
    \/ CtorInit(Containers, InitLists)
    \/ PopBack(Containers)
    \/ Clear(Containers)
    \/ ItBegin(Containers, Held)
    \/ ItEnd(Containers, Held)
    \/ ItDefault(Held)
    \/ ItIncrement(Held)
    \/ ItDestroy(Held)
    \/ EraseIt(Containers, Held)
    \/ EraseRangeIt(Containers, Held)
    \/ EraseUnsortedIt(Containers, Held)
    \/ Return

SpecArg == InitIt /\ [][NextArg]_vars

\* the iterator objects of a caller that passes none of them to the container
\* (no temporaries are alive between its calls)
Handles == 1..(MaxIters + 1)

\* the one initializer list of MaxInit elements that starts with the first value
HandleLists == {l \in InitLists : Len(l) = MaxInit /\ l[1] = 1}

\* two containers of TestObject elements that only shrink, and the iterator
\* objects their caller constructs, copies, moves, assigns and destroys
NextHandles ==
    \/ CtorInit(Containers, HandleLists)
    \/ PopBack(Containers)
    \/ Clear(Containers)
    \/ ItBegin(Containers, Handles)
    \/ ItEnd(Containers, Handles)
    \/ ItDefault(Handles)
    \/ ItCopy(Handles)
    \/ ItMove(Handles)
    \/ ItAssign(Handles)
    \/ ItMoveAssign(Handles)
    \/ ItDestroy(Handles)
    \/ Return

SpecHandles == InitIt /\ [][NextHandles]_vars

\* one container of TestObject elements that grows, shrinks and is cleared, and the
\* iterator objects its caller copies, moves, assigns, advances and
\* dereferences
NextUse ==
    \/ CtorInit(One, InitLists)
    \/ PushBack(One, {DefaultT})
    \/ PopBack(One)
    \/ Clear(One)
    \/ ItBegin(One, Held)
    \/ ItEnd(One, Held)
    \/ ItCopy(Held)
    \/ ItConvert(Held)
    \/ ItMove(Held)
    \/ ItAssign(Held)
    \/ ItMoveAssign(Held)
    \/ ItIncrement(Held)
    \/ ItDeref(Held)
    \/ ItDestroy(Held)
    \/ Return

SpecUse == InitIt /\ [][NextUse]_vars

\* ------------------------------------------------------------ observations
\* operator[](pos)
operator_index(S, pos) ==
    LET pe == get_page_and_element_indices(pos) IN SlotAt(S, pe[1], pe[2])

\* the elements of container c by index: c[0], ..., c[size() - 1]
Contents(c) == [k \in 1..m_size[c] |-> operator_index(Self(c), k - 1)]

Live == {c \in Containers : alive[c]}

\* iterator object x is on the list of the container it was made for
Registered(x) ==
    /\ iters[x].bound /\ iters[x].m_container # NULL
    /\ iters[x].container = iters[x].m_container

\* iterator object x was made for a container that has since cleared its
\* back-reference
Invalidated(x) ==
    /\ iters[x].bound /\ iters[x].m_container # NULL
    /\ iters[x].container = NULL

\* what *x gives now: the fault it raises, or the element it reads
Deref(x) == operator_star(Self(1), iters[x])

\* the nodes met from node by following next, at most fuel of them
RECURSIVE ListFrom(_, _)
ListFrom(node, fuel) ==
    IF node = NULL \/ fuel = 0 THEN <<>>
    ELSE <<node>> \o ListFrom(iters[node].next, fuel - 1)

\* c's iterator list from m_iterator_list, cut off beyond one node more than
\* there are iterator objects
IteratorList(c) == ListFrom(m_iterator_list[c], RetVal + 1)

\* node is on c's iterator list
OnList(c, node) == \E k \in 1..Len(IteratorList(c)) : IteratorList(c)[k] = node

\* ------------------------------------------------------------------ claims
\* C2: after any sequence of public operations, size() <= capacity() and
\* capacity() is a multiple of PAGE_SIZE, namely page_count * PAGE_SIZE.
C2_SizeWithinCapacity ==
    \A c \in Live :
        /\ m_size[c] <= capacity(Self(c))
        /\ capacity(Self(c)) % PAGE_SIZE = 0
        /\ capacity(Self(c)) = m_page_count[c] * PAGE_SIZE

\* a container shrunk to fit its three elements, the last page half full
C2_Witness ==
    /\ last.op = "shrink_to_fit" /\ alive[last.c]
    /\ m_size[last.c] = PAGE_SIZE + 1
    /\ capacity(Self(last.c)) = 2 * PAGE_SIZE

\* C3: after any sequence of public operations, page_count <= page_capacity
\* and every page-table slot below page_count holds an allocated page.
C3_PageTable ==
    \A c \in Live :
        /\ m_page_count[c] <= m_page_capacity[c]
        /\ Len(m_pages[c]) = m_page_capacity[c]
        /\ \A i \in 1..m_page_count[c] :
               /\ i <= Len(m_pages[c])
               /\ m_pages[c][i] \in PageIds
               /\ heap[m_pages[c][i]] # <<>>

\* a container that took over another's two pages by move assignment
C3_Witness ==
    /\ last.op = "move_assign" /\ last.c # last.other
    /\ alive[last.c] /\ m_page_count[last.c] = 2

\* the page holding the element at index pos of container c (NULL: none)
PageOf(c, pos) == PageAt(Self(c), get_page_and_element_indices(pos)[1])

\* the call the step makes is op on container c
Calls(ops, c) == last'.op \in ops /\ last'.c = c

\* C1: push_back, emplace_back and reserve never relocate an existing element:
\* every index below the size before the call keeps its page, its slot and
\* its value, also when the call reallocates the page-table array.
C1_Step ==
    \A c \in Containers :
        Calls({"push_back", "reserve"}, c) =>
            \A i \in 0..(m_size[c] - 1) :
                /\ PageOf(c, i) \in PageIds
                /\ PageOf(c, i)' = last'.ren[PageOf(c, i)]
                /\ operator_index(Self(c), i)' = operator_index(Self(c), i)
                /\ operator_index(Self(c), i) # NoObj

C1_PageStability == [][C1_Step]_vars

\* a push_back that reallocated the page table of a container with elements
C1_Witness ==
    /\ last.op = "push_back" /\ last.realloc
    /\ m_size[last.c] = PAGE_SIZE + 1

\* the public operations of C4 on a container that exists before and after
C4_Ops ==
    {"push_back", "pop_back", "resize", "resize_value", "reserve", "clear",
     "erase", "erase_range", "erase_unsorted", "copy_assign", "move_assign",
     "init_assign"}

\* C4 as stated: every operation other than shrink_to_fit, destruction and
\* being moved from, move assignment into the container included, leaves
\* capacity() at least what it was.
C4_Original ==
    [][\A c \in Containers :
           Calls(C4_Ops, c) => capacity(Self(c))' >= capacity(Self(c))]_vars

\* C4 (amended): capacity() of a container decreases only via shrink_to_fit,
\* destruction, being moved from, or move assignment into it, which gives it
\* the capacity its source had; push_back, pop_back, resize, reserve, clear,
\* erase, erase_unsorted and copy or initializer-list assignment into it leave
\* capacity() at least what it was.
C4_Step ==
    \A c \in Containers :
        /\ Calls(C4_Ops \ {"move_assign"}, c) =>
               capacity(Self(c))' >= capacity(Self(c))
        /\ \A o \in Containers :
               Calls({"move_assign"}, c) /\ last'.other = o =>
                   capacity(Self(c))' = capacity(Self(o))
        /\ Calls(C4_Ops, c) =>
               \A d \in Containers \ {c} :
                   d # last'.other => capacity(Self(d))' = capacity(Self(d))

C4_CapacityMonotone == [][C4_Step]_vars

\* a move assignment into a container from another one that holds one element
C4_Witness ==
    /\ last.op = "move_assign" /\ last.c # last.other
    /\ capacity(Self(last.c)) = PAGE_SIZE
    /\ m_size[last.c] = 1

\* --------------------------------------------------- the abstract sequence
\* seq without its elements at indices f .. l - 1 (counted from 0)
Remove(seq, f, l) == SubSeq(seq, 1, f) \o SubSeq(seq, l + 1, Len(seq))

\* seq cut or padded with v to count elements
Resized(seq, count, v) ==
    [k \in 1..count |-> IF k <= Len(seq) THEN seq[k] ELSE v]

\* what std::vector holds after the call, when it held old before and the
\* call's other container held src
vector_after(call, old, src) ==
    CASE call.op = "ctor" -> <<>>
      [] call.op = "ctor_count" -> Resized(<<>>, call.a, DefaultT)
      [] call.op = "ctor_count_value" -> Resized(<<>>, call.a, call.b)
      [] call.op \in {"ctor_init", "init_assign"} -> call.a
      [] call.op \in {"ctor_copy", "copy_assign", "ctor_move", "move_assign"} -> src
      [] call.op = "push_back" -> Append(old, call.a)
      [] call.op = "pop_back" -> SubSeq(old, 1, Len(old) - 1)
      [] call.op = "resize" -> Resized(old, call.a, DefaultT)
      [] call.op = "resize_value" -> Resized(old, call.a, call.b)
      [] call.op \in {"reserve", "shrink_to_fit"} -> old
      [] call.op = "clear" -> <<>>
      [] call.op = "erase" -> Remove(old, call.a, call.a + 1)
      [] call.op = "erase_range" -> Remove(old, call.a, call.b)
      [] OTHER -> old

\* for (auto it = c.begin(); it != c.end(); ++it) with the iterator at its
\* k-th step visits seq[k], seq[k + 1], ... read with *it, and then stops
RECURSIVE traverse(_, _, _, _)
traverse(S, c, seq, k) ==
    IF iter_equal(S.its[RetVal], [m_container |-> c, m_index |-> S.size])
    THEN k = Len(seq) + 1
    ELSE /\ k <= Len(seq)
         /\ operator_star(S, S.its[RetVal]) = [err |-> "none", value |-> seq[k]]
         /\ \E T \in {increment(S, RetVal)} : traverse(T, c, seq, k + 1)

\* iteration over container c visits its elements in index order
Traversal(c) ==
    \E S \in {basic_iterator(Self(c), RetVal, c, 0)} : traverse(S, c, Contents(c), 1)

VectorOps ==
    {"ctor", "ctor_count", "ctor_count_value", "ctor_init", "ctor_copy", "ctor_move",
     "copy_assign", "move_assign", "init_assign", "push_back", "pop_back", "resize",
     "resize_value", "reserve", "shrink_to_fit", "clear", "erase", "erase_range"}

\* the elements of the call's other container before the call
Source == IF last'.other \in Containers THEN Contents(last'.other) ELSE <<>>

\* C5: under construction, push_back, emplace_back, pop_back, resize, reserve,
\* clear, erase, copy and assignment, the contents of the container (size(),
\* empty(), the element at every index, the order of begin()..end() iteration)
\* are those of a std::vector put through the same calls.
C5_Step ==
    \A c \in Containers :
        Calls(VectorOps, c) =>
            /\ Contents(c)' = vector_after(last', Contents(c), Source)
            /\ Traversal(c)'
            /\ (m_size[c] = 0)' <=> (vector_after(last', Contents(c), Source) = <<>>)
            /\ \A k \in 1..Len(Contents(c)') : Contents(c)'[k] \in Values
            /\ \A d \in Containers \ {c} :
                   Contents(d)' = IF last'.op \in {"ctor_move", "move_assign"}
                                     /\ last'.other = d
                                  THEN <<>> ELSE Contents(d)

C5_Refinement == [][C5_Step]_vars

\* a growing resize across a page boundary, after which iteration visits the
\* three elements in index order
C5_Witness ==
    /\ last.op = "resize" /\ last.a = PAGE_SIZE + 1
    /\ Contents(last.c) = <<2, 1, 1>>
    /\ Traversal(last.c)

\* the faults of an element's lifetime
LifetimeFaults ==
    {"construct_over_live", "destruct_raw", "move_from_raw", "free_live_page",
     "write_outside_page"}

\* C6: a slot holds a live element iff its index is below size(); no call
\* constructs over a live element or destructs or moves from raw storage; and
\* every element constructed is destructed once by the time its container is
\* cleared or destroyed: no page is freed, or left to no container, with a
\* live element on it.
C6_Lifetimes ==
    /\ last.err \notin LifetimeFaults
    /\ \A c \in Live :
           \A pi \in 0..(m_page_count[c] - 1), ei \in 0..(PAGE_SIZE - 1) :
               SlotAt(Self(c), pi, ei) # NoObj <=> pi * PAGE_SIZE + ei < m_size[c]
    /\ \A p \in PageIds :
           heap[p] # <<>> =>
               \/ \E c \in Live : \E i \in 1..m_page_count[c] : m_pages[c][i] = p
               \/ \A k \in 1..PAGE_SIZE : heap[p][k] = NoObj
    /\ last.op \in {"clear", "dtor"} =>
           \A p \in PageIds : \A i \in 1..Len(m_pages[last.c]) :
               m_pages[last.c][i] = p /\ heap[p] # <<>> =>
                   \A k \in 1..PAGE_SIZE : heap[p][k] = NoObj

\* a container of non-trivial elements cleared while another one holds an element
C6_Witness ==
    /\ last.op = "clear" /\ ~trivial
    /\ m_page_count[last.c] = 1
    /\ \E d \in Live \ {last.c} : m_size[d] = 1

\* C7: erase(it) at index i < n of [a0..a(n-1)] leaves [a0..a(i-1),
\* a(i+1)..a(n-1)] with size n-1 and returns an iterator at index i that
\* dereferences to the old a(i+1), or equals end() when i = n-1, wherever i
\* and the shifted tail lie relative to the page boundaries.
C7_Step ==
    \A c \in Containers :
        Calls({"erase"}, c) =>
            \E old \in {Contents(c)}, i \in {last'.a}, ret \in {last'.ret} :
                /\ last'.err = "none"
                /\ Contents(c)' = Remove(old, i, i + 1)
                /\ m_size'[c] = Len(old) - 1
                /\ ret.m_container = c /\ ret.m_index = i
                /\ IF i = Len(old) - 1
                   THEN iter_equal(ret, [m_container |-> c, m_index |-> m_size[c]])'
                   ELSE operator_star(Self(c), ret)' = [err |-> "none", value |-> old[i + 2]]

C7_Erase == [][C7_Step]_vars

\* the first of four elements erased: the tail moves from the second page
\* into the first
C7_Witness ==
    /\ last.op = "erase" /\ last.a = 0
    /\ Contents(last.c) = <<1, 2, 1>>
    /\ operator_star(Self(last.c), last.ret).value = 1

\* C8: erase(first, last) with first at f and last at l, f < l <= n, leaves
\* [a0..a(f-1), a(l)..a(n-1)] in that order with size n-(l-f) and returns an
\* iterator at index f, also when the range or the tail spans several pages.
C8_Step ==
    \A c \in Containers :
        Calls({"erase_range"}, c) /\ last'.a < last'.b =>
            \E old \in {Contents(c)}, f \in {last'.a}, l \in {last'.b}, ret \in {last'.ret} :
                /\ last'.err = "none"
                /\ Contents(c)' = Remove(old, f, l)
                /\ m_size'[c] = Len(old) - (l - f)
                /\ ret.m_container = c /\ ret.m_index = f
                /\ _verify_valid(Self(c), ret)' = "none"

C8_EraseRange == [][C8_Step]_vars

\* the second and third of four elements erased: the range spans both pages
\* and the last element moves from the second page into the first
C8_Witness ==
    /\ last.op = "erase_range" /\ last.a = 1 /\ last.b = PAGE_SIZE + 1
    /\ Contents(last.c) = <<1, 2>>

\* C10: erase_unsorted(it) at index i < n leaves size n-1 and every surviving
\* index other than i unchanged; if i # n-1, index i holds the former last
\* element and the returned iterator dereferences to it; if i = n-1 the effect
\* is that of pop_back() and the returned iterator equals end().
C10_Step ==
    \A c \in Containers :
        Calls({"erase_unsorted"}, c) =>
            \E old \in {Contents(c)}, i \in {last'.a}, ret \in {last'.ret},
               popped \in {pop_back(Self(c))} :
                /\ last'.err = "none"
                /\ m_size'[c] = Len(old) - 1
                /\ \A k \in 1..(Len(old) - 1) : k # i + 1 => Contents(c)'[k] = old[k]
                /\ IF i # Len(old) - 1
                   THEN /\ Contents(c)'[i + 1] = old[Len(old)]
                        /\ ret.m_container = c /\ ret.m_index = i
                        /\ operator_star(Self(c), ret)' =
                               [err |-> "none", value |-> old[Len(old)]]
                   ELSE /\ iter_equal(ret, [m_container |-> c, m_index |-> m_size[c]])'
                        /\ m_pages'[c] = popped.pages
                        /\ m_page_count'[c] = popped.page_count
                        /\ m_page_capacity'[c] = popped.page_capacity
                        /\ heap' = popped.heap

C10_EraseUnsorted == [][C10_Step]_vars

\* the first of four elements erased unsorted: the last element moves from
\* the second page into the first slot
C10_Witness ==
    /\ last.op = "erase_unsorted" /\ last.a = 0
    /\ Contents(last.c) = <<2, 1, 1>>
    /\ operator_star(Self(last.c), last.ret).value = 2

\* C9: erase(first, last) with first = last is a no-op: size, every element,
\* capacity and the validity of every iterator the caller holds are unchanged
\* (the iterator objects and the registry are as they were), and the returned
\* iterator is positioned at first's index.
C9_Step ==
    \A c \in Containers :
        Calls({"erase_range"}, c) /\ last'.a = last'.b =>
            \E ret \in {last'.ret} :
                /\ last'.err = "none"
                /\ m_size'[c] = m_size[c]
                /\ Contents(c)' = Contents(c)
                /\ capacity(Self(c))' = capacity(Self(c))
                /\ m_pages' = m_pages /\ heap' = heap
                /\ \A x \in Held :
                       /\ iters'[x] = iters[x]
                       /\ _verify_valid(Self(c), iters[x])' = _verify_valid(Self(c), iters[x])
                /\ m_iterator_list' = m_iterator_list
                /\ ret.m_container = c /\ ret.m_index = last'.a

C9_EraseEmptyRange == [][C9_Step]_vars

\* an empty range erased at index 1 while the caller holds a valid iterator
\* behind it and an iterator that an earlier call invalidated
C9_Witness ==
    /\ last.op = "erase_range" /\ last.a = 1 /\ last.b = 1
    /\ m_size[last.c] = PAGE_SIZE + 1
    /\ \E x \in Held, y \in Held :
           /\ iters[x].m_index = PAGE_SIZE
           /\ _verify_valid(Self(last.c), iters[x]) = "none"
           /\ _verify_valid(Self(last.c), iters[y]) = "assert_iterator_invalidated"

\* C11: resize(count) and resize(count, value) set size() to count; the
\* elements below min(old size, count) keep their values; when growing, every
\* element in [old size, count) equals value (T{} for resize(count)); when
\* shrinking, exactly the elements in [count, old size) are destructed.
C11_Step ==
    \A c \in Containers :
        Calls({"resize", "resize_value"}, c) =>
            \E old \in {Contents(c)}, count \in {last'.a},
               value \in {IF last'.op = "resize" THEN DefaultT ELSE last'.b} :
                /\ last'.err = "none"
                /\ m_size'[c] = count
                /\ \A k \in 1..Min(Len(old), count) : Contents(c)'[k] = old[k]
                /\ \A k \in (Len(old) + 1)..count : Contents(c)'[k] = value
                /\ \A i \in 0..(MaxSize + PAGE_SIZE) :
                       (operator_index(Self(c), i) # NoObj
                            /\ operator_index(Self(c), i)' = NoObj)
                       <=> i \in count..(Len(old) - 1)

C11_Resize == [][C11_Step]_vars

\* a container of non-trivial elements shrunk to one element by resize: its
\* second page is kept and holds no element any more
C11_Witness ==
    /\ last.op = "resize" /\ last.a = 1 /\ ~trivial
    /\ m_size[last.c] = 1 /\ m_page_count[last.c] = 2
    /\ Contents(last.c) = <<2>>
    /\ \A i \in 1..(2 * PAGE_SIZE - 1) : operator_index(Self(last.c), i) = NoObj

\* C12: from any state, push_back(x) followed by pop_back() restores the
\* prior size() and the prior value of every element that existed before;
\* capacity() may have grown (it has not shrunk).
C12_Step ==
    \A c \in Containers :
        Calls({"push_back"}, c) =>
            \E T \in {pop_back(Self(c))'} :
                /\ last'.err = "none" /\ T.err = "none"
                /\ T.size = m_size[c]
                /\ \A i \in 0..(m_size[c] - 1) :
                       /\ operator_index(Self(c), i) # NoObj
                       /\ operator_index(T, i) = operator_index(Self(c), i)
                /\ operator_index(T, m_size[c]) = NoObj
                /\ capacity(T) >= capacity(Self(c))

C12_PushPop == [][C12_Step]_vars

\* a push_back onto a full page that allocated a second page: the pop_back
\* after it leaves the two old elements and the grown capacity
C12_Witness ==
    /\ last.op = "push_back" /\ m_size[last.c] = PAGE_SIZE + 1
    /\ Contents(last.c) = <<1, 2, 2>>
    /\ pop_back(Self(last.c)).size = PAGE_SIZE
    /\ capacity(pop_back(Self(last.c))) = 2 * PAGE_SIZE

\* no page is in the page table of two containers
NoSharedPage ==
    \A c \in Live, d \in Live :
        c # d =>
            \A i \in 1..m_page_count[c], j \in 1..m_page_count[d] :
                m_pages[c][i] # m_pages[d][j]

\* the calls that change the container they are made on
Mutators ==
    {"ctor", "ctor_count", "ctor_count_value", "ctor_init", "ctor_copy", "ctor_move",
     "dtor", "copy_assign", "move_assign", "init_assign", "push_back", "pop_back",
     "reserve", "shrink_to_fit", "clear", "resize", "resize_value", "erase",
     "erase_range", "erase_unsorted"}

\* C13: copy construction and copy assignment, also onto a target that holds
\* elements, give the target the size of the source and an equal element at
\* every index and leave the source as it was; the two share no page, and no
\* later call on one container changes the size or the elements of the other
\* (a move from the other aside, which is a call on both).
C13_Step ==
    \A c \in Containers :
        /\ \A o \in Containers :
               Calls({"ctor_copy", "copy_assign"}, c) /\ last'.other = o =>
                   /\ last'.err = "none"
                   /\ m_size'[c] = m_size[o]
                   /\ Contents(c)' = Contents(o)
                   /\ \A k \in 1..m_size[o] : Contents(o)[k] \in Values
                   /\ Contents(o)' = Contents(o)
                   /\ m_size'[o] = m_size[o]
        /\ Calls(Mutators, c) =>
               \A d \in Containers \ {c} :
                   ~(last'.op \in {"ctor_move", "move_assign"} /\ last'.other = d) =>
                       /\ m_size'[d] = m_size[d]
                       /\ Contents(d)' = Contents(d)

C13_Copy == []NoSharedPage /\ [][C13_Step]_vars

\* three elements on two pages copy-assigned onto a container whose page
\* table had room for the two pages already
C13_Witness ==
    /\ last.op = "copy_assign" /\ last.c # last.other /\ ~last.realloc
    /\ Contents(last.c) = <<1, 2, 1>>
    /\ Contents(last.other) = <<1, 2, 1>>
    /\ m_page_count[last.c] = 2 /\ m_page_count[last.other] = 2

\* the pages the allocator has handed out and not got back
AllocatedPages == {p \in PageIds : heap[p] # <<>>}

\* C14: move construction and move assignment from another container give the
\* destination the source's elements in the same order by taking over the
\* source's pages, release every page the destination owned before, and leave
\* the source with size() = 0, capacity() = 0 and no page table, usable as an
\* empty container: a push_back on it gives a container of one element.
\* Move assignment of a container to itself changes nothing.
C14_Step ==
    \A c \in Containers, o \in Containers :
        Calls({"ctor_move", "move_assign"}, c) /\ last'.other = o =>
            IF c = o
            THEN Contents(c)' = Contents(c) /\ m_pages' = m_pages /\ heap' = heap
            ELSE /\ last'.err = "none"
                 /\ Contents(c)' = Contents(o)
                 /\ m_size'[c] = m_size[o]
                 /\ m_page_count'[c] = m_page_count[o]
                 /\ m_page_capacity'[c] = m_page_capacity[o]
                 /\ \A i \in 1..m_page_count[o] :
                        m_pages'[c][i] = last'.ren[m_pages[o][i]]
                 /\ \A i \in 1..m_page_count[c] :
                        last'.ren[m_pages[c][i]] = Dangling
                 /\ Cardinality(AllocatedPages') =
                        Cardinality(AllocatedPages) - m_page_count[c]
                 /\ alive'[o]
                 /\ m_size'[o] = 0 /\ capacity(Self(o))' = 0
                 /\ m_pages'[o] = <<>> /\ m_page_capacity'[o] = 0
                 /\ \E T \in {push_back(Self(o), DefaultT)'} :
                        /\ T.err = "none" /\ ~T.oom
                        /\ T.size = 1 /\ operator_index(T, 0) = DefaultT

C14_Move == [][C14_Step]_vars

\* three elements on two pages move-assigned into a container that owned a
\* page, which the call freed
C14_Witness ==
    /\ last.op = "move_assign" /\ last.c # last.other
    /\ Contents(last.c) = <<1, 2, 1>>
    /\ m_size[last.other] = 0 /\ m_page_capacity[last.other] = 0
    /\ \E p \in PageIds : last.ren[p] = Dangling
    /\ Cardinality(AllocatedPages) = 2

\* C15: at(pos) returns the element at index pos when pos < size(); when
\* pos >= size() it throws std::out_of_range, which the caller can catch; in
\* both cases size, capacity, the pages and every element are as before.
C15_Step ==
    \A c \in Containers :
        Calls({"at"}, c) =>
            \E pos \in {last'.a} :
                /\ IF pos < m_size[c]
                   THEN /\ last'.err = "none"
                        /\ last'.b = Contents(c)[pos + 1]
                        /\ last'.b \in Values
                   ELSE last'.err = "out_of_range"
                /\ m_size' = m_size
                /\ m_pages' = m_pages /\ heap' = heap
                /\ m_page_count' = m_page_count
                /\ m_page_capacity' = m_page_capacity
                /\ alive' = alive
                /\ \A d \in Containers :
                       /\ capacity(Self(d))' = capacity(Self(d))
                       /\ Contents(d)' = Contents(d)

C15_At == [][C15_Step]_vars

\* at(size()) on a container of one element with room for a second: the slot
\* exists, it holds no element, and the call throws
C15_Witness ==
    /\ last.op = "at" /\ last.err = "out_of_range"
    /\ last.a = 1 /\ m_size[last.c] = 1
    /\ capacity(Self(last.c)) > 1

\* the smallest number of pages that hold n elements
CeilPages(n) == (n + PAGE_SIZE - 1) \div PAGE_SIZE

\* what C16 says of a reserve(n) step with n in N
C16_For(N) ==
    \A c \in Containers :
        Calls({"reserve"}, c) /\ last'.a \in N =>
            \E n \in {last'.a} :
                /\ last'.err = "none"
                /\ IF n <= capacity(Self(c))
                   THEN /\ m_pages' = m_pages /\ heap' = heap
                        /\ m_page_count' = m_page_count
                        /\ m_page_capacity' = m_page_capacity
                   ELSE /\ m_page_count'[c] = CeilPages(n)
                        /\ capacity(Self(c))' >= n
                /\ m_size' = m_size
                /\ \A d \in Containers : Contents(d)' = Contents(d)

\* C16: for every n of the size type, reserve(n) changes nothing when
\* n <= capacity(); otherwise afterwards page_count = ceil(n / PAGE_SIZE), so
\* capacity() >= n; in both cases size() and every element are unchanged.
C16_Reserve == [][C16_For(0..SIZE_MAX)]_vars

\* the same for the n whose rounding up to whole pages does not wrap
C16_ReserveNoWrap == [][C16_For(0..(SIZE_MAX - PAGE_SIZE + 1))]_vars

\* reserve(SIZE_MAX) returned and left the container without a page
C16_Witness ==
    /\ last.op = "reserve" /\ last.a = SIZE_MAX /\ last.err = "none"
    /\ alive[last.c] /\ capacity(Self(last.c)) = 0

\* push_back until size() = n, at most fuel times, never allocates a page
\* and never reallocates the page table
RECURSIVE PushesKeepPages(_, _, _)
PushesKeepPages(S, n, fuel) ==
    IF S.size >= n \/ fuel = 0 THEN TRUE
    ELSE \E T \in {push_back(S, DefaultT)} :
             /\ T.err = "none" /\ ~T.oom /\ ~T.realloc
             /\ T.page_count = S.page_count
             /\ T.page_capacity = S.page_capacity
             /\ \A i \in 1..S.page_capacity : T.pages[i] = S.pages[i]
             /\ T.size = S.size + 1
             /\ PushesKeepPages(T, n, fuel - 1)

\* what C17 says of a reserve(n) step with n in N, and of the pushes that
\* follow it while size() is below the capacity reserved
C17_For(N) ==
    \A c \in Containers :
        /\ Calls({"reserve"}, c) /\ last'.a \in N =>
               \E n \in {last'.a} : PushesKeepPages(Self(c), n, MaxSize + 1)'
        /\ Calls({"push_back"}, c) /\ m_size[c] < capacity(Self(c)) =>
               /\ ~last'.realloc
               /\ m_page_count' = m_page_count
               /\ m_page_capacity' = m_page_capacity
               /\ m_pages' = m_pages

\* C17: after reserve(n), pushing elements until size() = n allocates no page
\* and does not reallocate the page table: page_count and page_capacity stay
\* as reserve left them.
C17_ReservedPushes == [][C17_For(0..SIZE_MAX)]_vars

\* the same for the n whose rounding up to whole pages does not wrap
C17_ReservedPushesNoWrap == [][C17_For(0..(SIZE_MAX - PAGE_SIZE + 1))]_vars

\* reserve(SIZE_MAX) on an empty container, after which the first push_back
\* allocates a page
C17_Witness ==
    /\ last.op = "reserve" /\ last.a = SIZE_MAX /\ last.err = "none"
    /\ alive[last.c] /\ m_size[last.c] = 0 /\ m_page_count[last.c] = 0
    /\ push_back(Self(last.c), DefaultT).page_count = 1

\* C18: after shrink_to_fit(), page_count = ceil(size / PAGE_SIZE): the pages
\* up to there are kept, every page beyond is freed and its slot is null;
\* page_capacity is unchanged, and size() and every element are unchanged.
C18_Step ==
    \A c \in Containers :
        Calls({"shrink_to_fit"}, c) =>
            \E kept \in {CeilPages(m_size[c])} :
                /\ last'.err = "none" /\ ~last'.realloc
                /\ m_page_count'[c] = kept
                /\ m_page_capacity' = m_page_capacity
                /\ Len(m_pages'[c]) = m_page_capacity[c]
                /\ \A i \in 1..kept : m_pages'[c][i] = last'.ren[m_pages[c][i]]
                /\ \A i \in (kept + 1)..m_page_capacity[c] : m_pages'[c][i] = NULL
                /\ \A i \in (kept + 1)..m_page_count[c] :
                       last'.ren[m_pages[c][i]] = Dangling
                /\ Cardinality(AllocatedPages') =
                       Cardinality(AllocatedPages) - (m_page_count[c] - kept)
                /\ m_size' = m_size
                /\ \A d \in Containers : Contents(d)' = Contents(d)

C18_ShrinkToFit == [][C18_Step]_vars

\* a container of one element with a page table of two slots shrunk to fit:
\* its second page was freed, the slot is null, the table kept its two slots
C18_Witness ==
    /\ last.op = "shrink_to_fit" /\ m_size[last.c] = 1
    /\ m_page_count[last.c] = 1 /\ m_page_capacity[last.c] = 2
    /\ m_pages[last.c][2] = NULL
    /\ \E p \in PageIds : last.ren[p] = Dangling

\* old + old / 2, or pages_needed if that is more
GeometricOr(old, pages_needed) ==
    IF old + old \div 2 < pages_needed THEN pages_needed ELSE old + old \div 2

\* C19 as stated: when the page table must grow to hold pages_needed slots,
\* the new page_capacity is pages_needed if the old one was 0, and otherwise
\* max(old + old/2, pages_needed).
C19_Original ==
    [][\A c \in Containers :
           Calls({"ensure_page_capacity"}, c) /\ last'.a > m_page_capacity[c] =>
               m_page_capacity'[c] =
                   IF m_page_capacity[c] = 0 THEN last'.a
                   ELSE GeometricOr(m_page_capacity[c], last'.a)]_vars

\* C19 (amended): when the page table must grow to hold pages_needed slots,
\* the new page_capacity is pages_needed if the old one was 0; otherwise it is
\* max_page_capacity if old + old/2 would exceed max_page_capacity, whatever
\* pages_needed is, and max(old + old/2, pages_needed) if not.  A table that
\* need not grow keeps its capacity.
C19_Step ==
    \A c \in Containers :
        Calls({"ensure_page_capacity"}, c) =>
            \E old \in {m_page_capacity[c]}, pages_needed \in {last'.a} :
                /\ last'.err = "none" /\ last'.b = old
                /\ m_page_capacity'[c] =
                       IF pages_needed <= old THEN old
                       ELSE IF old = 0 THEN pages_needed
                       ELSE IF old + old \div 2 > max_page_capacity
                       THEN max_page_capacity
                       ELSE GeometricOr(old, pages_needed)
                /\ Len(m_pages'[c]) = m_page_capacity'[c]
                /\ last'.realloc <=> pages_needed > old

C19_PageGrowth == [][C19_Step]_vars

\* a page table grown from a capacity whose one-and-a-half exceeds
\* max_page_capacity: the new capacity is max_page_capacity
C19_Witness ==
    /\ last.op = "ensure_page_capacity" /\ last.realloc
    /\ last.b > 0 /\ last.b < max_page_capacity
    /\ last.b + last.b \div 2 > max_page_capacity
    /\ m_page_capacity[last.c] = max_page_capacity

\* C20: the page-table capacity chosen on growth never exceeds
\* max_page_capacity, for any old capacity and any pages_needed, and when
\* old_capacity > max_capacity - old_capacity/2 the result is max_capacity
\* instead of a sum that wraps around.
C20_Step ==
    \A c \in Containers :
        Calls({"ensure_page_capacity"}, c) /\ last'.a > m_page_capacity[c] =>
            \E old \in {m_page_capacity[c]} :
                /\ m_page_capacity'[c] <= max_page_capacity
                /\ old > max_page_capacity - old \div GROWTH_FACTOR_DENOMINATOR =>
                       m_page_capacity'[c] = max_page_capacity

C20_GrowthCapped == [][C20_Step]_vars

\* a page table grown to more slots than max_page_capacity
C20_Witness ==
    /\ last.op = "ensure_page_capacity" /\ last.realloc /\ last.err = "none"
    /\ last.a > max_page_capacity
    /\ m_page_capacity[last.c] = last.a

\* C21: with the iterator-debugging build, clear() invalidates every iterator
\* the caller obtained from the container before it; an invalidated iterator
\* stays invalidated through every later call (pushes included) for as long as
\* the object lives, and dereferencing it raises the invalidated-iterator
\* fault and reads no element.
C21_Step ==
    /\ \A c \in Containers :
           Calls({"clear"}, c) =>
               /\ last'.err = "none"
               /\ m_iterator_list'[c] = NULL
               /\ \A x \in Held :
                      iters[x].bound /\ iters[x].m_container = c =>
                          /\ Invalidated(x)'
                          /\ iters'[x].m_container = c
    /\ \A x \in Held :
           Invalidated(x) /\ iters'[x].bound =>
               /\ Invalidated(x)'
               /\ Deref(x)'.err = "assert_iterator_invalidated"
    /\ \A x \in Held :
           last'.op = "deref" /\ last'.a = x /\ Invalidated(x) =>
               /\ last'.err = "assert_iterator_invalidated"
               /\ last'.b = NoObj

C21_Clear == [][C21_Step]_vars

\* a container cleared while the caller holds an iterator into each of its
\* two pages: both are invalidated
C21_Witness ==
    /\ last.op = "clear" /\ m_size[last.c] = 0
    /\ \E x \in Held, y \in Held :
        /\ Invalidated(x) /\ iters[x].m_index = 0
        /\ Invalidated(y) /\ iters[y].m_index = PAGE_SIZE

\* C22: with the iterator-debugging build, erase(pos), erase(first, last) of a
\* non-empty range, pop_back() and a shrinking resize invalidate exactly the
\* registered iterators whose index is >= the erase position / first / the new
\* size: each of those raises the invalidated-iterator fault when dereferenced,
\* now and after any later call; every registered iterator with a smaller
\* index stays registered and a dereference of it gives what it gave before
\* the call (the same element), and no iterator invalidated earlier becomes
\* registered.  (An empty range erased changes no iterator.)
C22_Step ==
    /\ \A c \in Containers :
           /\ last'.err = "none"
           /\ \/ Calls({"erase", "pop_back"}, c)
              \/ Calls({"erase_range"}, c) /\ last'.a < last'.b
              \/ Calls({"resize"}, c) /\ last'.a < m_size[c]
           => \E pos \in {IF last'.op = "pop_back" THEN m_size[c] - 1 ELSE last'.a} :
                  \A x \in Held :
                      /\ Registered(x) /\ iters[x].m_container = c /\ iters[x].index >= pos =>
                             /\ Invalidated(x)'
                             /\ Deref(x)'.err = "assert_iterator_invalidated"
                      /\ Registered(x) /\ iters[x].m_container = c /\ iters[x].index < pos =>
                             /\ Registered(x)'
                             /\ iters'[x].m_index = iters[x].m_index
                             /\ Deref(x)' = Deref(x)
                      /\ ~Registered(x) => ~Registered(x)'
    /\ \A c \in Containers :
           Calls({"erase_range"}, c) /\ last'.a = last'.b =>
               \A x \in Held : iters'[x] = iters[x]
    /\ \A x \in Held :
           Invalidated(x) /\ iters'[x].bound =>
               /\ Invalidated(x)'
               /\ Deref(x)'.err = "assert_iterator_invalidated"

C22_InvalidateFrom == [][C22_Step]_vars

\* the second of three elements erased while the caller holds an iterator at
\* the first element and one at the third: the first still reads its element,
\* the other is invalidated
C22_Witness ==
    /\ last.op = "erase" /\ last.a = 1 /\ m_size[last.c] = 2
    /\ \E x \in Held, y \in Held :
        /\ Registered(x) /\ iters[x].m_index = 0 /\ Deref(x).err = "none"
        /\ Invalidated(y) /\ iters[y].m_index = 2

\* C23: with the iterator-debugging build, copy assignment and move
\* assignment from another container and initializer-list assignment
\* invalidate every iterator of the assigned-to container; move construction
\* and move assignment also invalidate every iterator of the moved-from
\* container.  Dereferencing such an iterator raises the invalidated-iterator
\* fault from then on.  The iterators of the source of a copy assignment are
\* left as they were, and so is every iterator when a container is assigned
\* to itself (copy and move assignment then do nothing).
C23_Step ==
    /\ \A c \in Containers :
           \/ Calls({"copy_assign", "move_assign"}, c) /\ last'.other # c
           \/ Calls({"init_assign"}, c)
           => /\ m_iterator_list'[c] = NULL
              /\ \A x \in Held :
                     iters[x].bound /\ iters[x].m_container = c =>
                         /\ Invalidated(x)'
                         /\ Deref(x)'.err = "assert_iterator_invalidated"
    /\ \A c \in Containers :
           Calls({"move_assign", "ctor_move"}, c) /\ last'.other # c =>
               /\ m_iterator_list'[last'.other] = NULL
               /\ \A x \in Held :
                      iters[x].bound /\ iters[x].m_container = last'.other =>
                          /\ Invalidated(x)'
                          /\ Deref(x)'.err = "assert_iterator_invalidated"
    /\ \A c \in Containers :
           Calls({"copy_assign"}, c) /\ last'.other # c =>
               \A x \in Held :
                   iters[x].bound /\ iters[x].m_container = last'.other =>
                       /\ Registered(x)' = Registered(x)
                       /\ Deref(x)' = Deref(x)
    /\ \A c \in Containers :
           Calls({"copy_assign", "move_assign"}, c) /\ last'.other = c =>
               \A x \in Held : iters'[x] = iters[x]
    /\ \A x \in Held :
           Invalidated(x) /\ iters'[x].bound =>
               /\ Invalidated(x)'
               /\ Deref(x)'.err = "assert_iterator_invalidated"

C23_Assign == [][C23_Step]_vars

\* a container move-assigned from another while the caller holds an iterator
\* of each: both iterators are invalidated, and the container now holds the
\* other's two elements
C23_Witness ==
    /\ last.op = "move_assign" /\ last.other # last.c
    /\ m_size[last.c] = 2 /\ m_size[last.other] = 0
    /\ \E x \in Held, y \in Held :
        /\ Invalidated(x) /\ iters[x].m_container = last.c
        /\ Invalidated(y) /\ iters[y].m_container = last.other

\* C24: with the iterator-debugging build, push_back / emplace_back and
\* reserve invalidate no iterator: every iterator that passed verification
\* before the call is still registered at the same index and passes it
\* afterwards, and one that addressed element i (index < size()) gives on
\* dereference what it gave before the call, the same element, also when the
\* call allocates a new page or reallocates the page table.
C24_Step ==
    \A c \in Containers :
        Calls({"push_back", "reserve"}, c) =>
            /\ m_iterator_list' = m_iterator_list
            /\ \A x \in Held :
                   /\ iters'[x].bound = iters[x].bound
                   /\ Registered(x) /\ _verify_valid(Self(c), iters[x]) = "none" =>
                          /\ Registered(x)'
                          /\ iters'[x].m_index = iters[x].m_index
                          /\ iters'[x].index = iters[x].index
                          /\ _verify_valid(Self(c), iters[x])' = "none"
                   /\ Registered(x) /\ iters[x].m_index < m_size[c] =>
                          /\ Deref(x)' = Deref(x)
                          /\ Deref(x).err = "none" =>
                                 Deref(x)'.value = Contents(c)[iters[x].m_index + 1]

C25_Step ==
    \A c \in Containers :
        \/ Calls({"resize"}, c) /\ last'.a >= m_size[c]
        \/ Calls({"shrink_to_fit"}, c)
        => \A x \in Held :
               Registered(x) /\ _verify_valid(Self(c), iters[x]) = "none" =>
                   /\ Registered(x)'
                   /\ _verify_valid(Self(c), iters[x])' = "none"

C25_ResizeKeepsIterators == [][C25_Step]_vars

\* the same but for the iterators at end() across a resize to the same size
C25_ExceptEnd ==
    [][\A c \in Containers :
        \/ Calls({"resize"}, c) /\ last'.a >= m_size[c]
        \/ Calls({"shrink_to_fit"}, c)
        => \A x \in Held :
               /\ Registered(x) /\ _verify_valid(Self(c), iters[x]) = "none"
               /\ ~(last'.op = "resize" /\ last'.a = m_size[c]
                        /\ iters[x].index = m_size[c])
               => /\ Registered(x)'
                  /\ _verify_valid(Self(c), iters[x])' = "none"]_vars

\* resize(count) to the size the container has invalidates the iterators at
\* end() and no other
C25_SameSize ==
    [][\A c \in Containers :
        Calls({"resize"}, c) /\ last'.a = m_size[c] =>
            \A x \in Held :
                Registered(x) /\ iters[x].m_container = c =>
                    (Invalidated(x)' <=> iters[x].index >= m_size[c])]_vars

\* a growing resize that allocated the second page and reallocated the page
\* table while the caller holds an iterator at the first element and one that
\* was at end(): both are still registered
C25_Witness ==
    /\ last.op = "resize" /\ last.realloc /\ m_size[last.c] = 2 * PAGE_SIZE
    /\ \E x \in Held, y \in Held :
        /\ Registered(x) /\ iters[x].m_index = 0 /\ Deref(x).err = "none"
        /\ Registered(y) /\ iters[y].m_index = PAGE_SIZE

\* C26: with the iterator-debugging build, erase(pos), erase(first, last) and
\* erase_unsorted(pos) called on a container with an iterator made for a
\* different container raise a fault before the container is modified: the
\* size and the elements of both containers are unchanged.
C26_Step ==
    \A c \in Containers : \A x \in Held, y \in Held :
        \/ /\ Calls({"erase_it", "erase_unsorted_it"}, c) /\ last'.a = x
           /\ iters[x].m_container \notin {NULL, c}
        \/ /\ Calls({"erase_range_it"}, c) /\ last'.a = x /\ last'.b = y
           /\ \/ iters[x].m_container \notin {NULL, c}
              \/ iters[y].m_container \notin {NULL, c}
        => /\ last'.err # "none"
           /\ m_size' = m_size
           /\ \A d \in Containers : Contents(d)' = Contents(d)

C26_OtherContainer == [][C26_Step]_vars

\* the same for erase(pos) and erase_unsorted(pos), and for erase(first, last)
\* unless first and last were made for the same container
C26_UnlessBoth ==
    [][\A c \in Containers : \A x \in Held, y \in Held :
        \/ /\ Calls({"erase_it", "erase_unsorted_it"}, c) /\ last'.a = x
           /\ iters[x].m_container \notin {NULL, c}
        \/ /\ Calls({"erase_range_it"}, c) /\ last'.a = x /\ last'.b = y
           /\ \/ iters[x].m_container \notin {NULL, c}
              \/ iters[y].m_container \notin {NULL, c}
           /\ iters[x].m_container # iters[y].m_container
        => /\ last'.err # "none"
           /\ m_size' = m_size
           /\ \A d \in Containers : Contents(d)' = Contents(d)]_vars

\* erase(first, last) of one container has run to its end, without a fault,
\* on a non-empty range of iterators the caller holds on the other container
C26_Witness ==
    /\ last.op = "erase_range_it" /\ last.err = "none"
    /\ last.a \in Held /\ last.b \in Held
    /\ Registered(last.a) /\ iters[last.a].m_container # last.c
    /\ Registered(last.b) /\ iters[last.b].m_container # last.c
    /\ iters[last.a].m_index < iters[last.b].m_index
    /\ last.ret.m_container = last.c

\* C27: with the iterator-debugging build, erase(first, last) with first
\* positioned after last (first.index > last.index), or with last.index >
\* size(), raises a fault and leaves the size and the elements of the
\* container (and of every other) unchanged; two valid iterators of the
\* container in the wrong order raise the invalid-range fault.
C27_Step ==
    \A c \in Containers : \A x \in Held, y \in Held :
        /\ Calls({"erase_range_it"}, c) /\ last'.a = x /\ last'.b = y
        /\ \/ iters[x].m_index > iters[y].m_index
           \/ iters[y].m_index > m_size[c]
        => /\ last'.err # "none"
           /\ m_size' = m_size
           /\ \A d \in Containers : Contents(d)' = Contents(d)
           /\ m_pages' = m_pages /\ heap' = heap
           /\ /\ iters[x].m_container = c /\ iters[y].m_container = c
              /\ iters[x].m_index <= m_size[c]
              /\ iters[x].m_index > iters[y].m_index
              => last'.err = "assert_invalid_iterator_range"

C27_MalformedRange == [][C27_Step]_vars

\* erase(first, last) on a container of two elements with first at its second
\* element and last at its first: the invalid-range fault, both elements kept
C27_Witness ==
    /\ last.op = "erase_range_it" /\ last.err = "assert_invalid_iterator_range"
    /\ last.a \in Held /\ last.b \in Held
    /\ iters[last.a].m_container = last.c /\ iters[last.b].m_container = last.c
    /\ iters[last.a].m_index = 1 /\ iters[last.b].m_index = 0
    /\ m_size[last.c] = 2

\* C28: with the iterator-debugging build, an iterator that has been
\* invalidated, or is default-constructed, passed to erase(pos),
\* erase(first, last) or erase_unsorted(pos) fails verification: the call
\* raises a fault and leaves the size and the elements of the container
\* unchanged.
C28_Step ==
    \A c \in Containers : \A x \in Held, y \in Held :
        \/ /\ Calls({"erase_it", "erase_unsorted_it"}, c) /\ last'.a = x
           /\ Invalidated(x) \/ iters[x].m_container = NULL
        \/ /\ Calls({"erase_range_it"}, c) /\ last'.a = x /\ last'.b = y
           /\ \/ Invalidated(x) \/ iters[x].m_container = NULL
              \/ Invalidated(y) \/ iters[y].m_container = NULL
        => /\ last'.err # "none"
           /\ m_size' = m_size
           /\ \A d \in Containers : Contents(d)' = Contents(d)

C28_InvalidatedArgument == [][C28_Step]_vars

\* the same for default-constructed iterators alone: the parameter made from
\* one is bound to no container and fails verification
C28_DefaultConstructed ==
    [][\A c \in Containers : \A x \in Held, y \in Held :
        \/ /\ Calls({"erase_it", "erase_unsorted_it"}, c) /\ last'.a = x
           /\ iters[x].m_container = NULL
        \/ /\ Calls({"erase_range_it"}, c) /\ last'.a = x /\ last'.b = y
           /\ iters[x].m_container = NULL \/ iters[y].m_container = NULL
        => /\ last'.err # "none"
           /\ iters[x].m_container = NULL =>
                  last'.err = "assert_iterator_no_container"
           /\ m_size' = m_size
           /\ \A d \in Containers : Contents(d)' = Contents(d)]_vars

\* the parameter made from an invalidated iterator is registered anew: an
\* invalidated iterator of the container at an index < size() is erased at
\* without a fault
C28_Accepted ==
    [][\A c \in Containers : \A x \in Held :
        /\ Calls({"erase_it", "erase_unsorted_it"}, c) /\ last'.a = x
        /\ Invalidated(x) /\ iters[x].m_container = c
        /\ iters[x].m_index < m_size[c]
        => /\ last'.err = "none"
           /\ m_size'[c] = m_size[c] - 1]_vars

\* erase(pos) has run to its end, without a fault, on an iterator of the
\* container that was invalidated when the call was made
C28_Witness ==
    /\ last.op = "erase_it" /\ last.err = "none" /\ last.b = NULL
    /\ last.a \in Held /\ iters[last.a].m_container = last.c
    /\ last.ret.m_container = last.c /\ last.ret.m_index = 0
    /\ m_size[last.c] = 0

\* C29: with the iterator-debugging build, dereferencing (* or ->) an
\* iterator whose index is >= size(), such as one advanced to end(), raises a
\* fault instead of reading a slot; for an iterator that is registered with
\* its container it is the out-of-range fault (one that was invalidated
\* raises the invalidated-iterator fault, which is checked first).
C29_Step ==
    \A c \in Containers : \A x \in Held :
        /\ last'.op = "deref" /\ last'.a = x
        /\ iters[x].bound /\ iters[x].m_container = c
        /\ iters[x].m_index >= m_size[c]
        => /\ last'.err # "none"
           /\ last'.b = NoObj
           /\ Registered(x) => last'.err = "assert_iterator_out_of_range"
           /\ Invalidated(x) => last'.err = "assert_iterator_invalidated"

C29_DerefOutOfRange == [][C29_Step]_vars

\* an iterator at end() of a container of two elements dereferenced: the
\* out-of-range fault, no element read
C29_Witness ==
    /\ last.op = "deref" /\ last.err = "assert_iterator_out_of_range"
    /\ last.a \in Held /\ Registered(last.a)
    /\ iters[last.a].m_container = last.c
    /\ m_size[last.c] = PAGE_SIZE /\ iters[last.a].m_index = PAGE_SIZE
    /\ last.b = NoObj

\* C30: with the iterator-debugging build, erase_unsorted(pos) at index i
\* invalidates the iterators positioned at the erased element; every iterator
\* positioned at any other index that is still < size() afterwards remains
\* registered and dereferences to its unchanged element.
C30_Step ==
    \A c \in Containers :
        Calls({"erase_unsorted"}, c) /\ last'.err = "none" =>
            \A x \in Held :
                /\ Registered(x) /\ iters[x].m_container = c /\ iters[x].index = last'.a =>
                       Invalidated(x)'
                /\ /\ Registered(x) /\ iters[x].m_container = c
                   /\ iters[x].index # last'.a /\ iters[x].index < m_size'[c]
                   => /\ Registered(x)'
                      /\ Deref(x)' = Deref(x)

C30_EraseUnsortedIterators == [][C30_Step]_vars

\* what erase_unsorted does: it invalidates every registered iterator at an
\* index >= i and keeps those in front of i
C30_AtOrAfter ==
    [][\A c \in Containers :
        Calls({"erase_unsorted"}, c) /\ last'.err = "none" =>
            \A x \in Held :
                Registered(x) /\ iters[x].m_container = c =>
                    /\ Invalidated(x)' <=> iters[x].index >= last'.a
                    /\ iters[x].index < last'.a =>
                           Registered(x)' /\ Deref(x)' = Deref(x)]_vars

\* the second of four elements erased unsorted while the caller holds an
\* iterator at the first element: it still reads its element; the caller's
\* iterator at the third element, which did not move, is invalidated
C30_Witness ==
    /\ last.op = "erase_unsorted" /\ last.a = 1 /\ m_size[last.c] = 3
    /\ \E x \in Held, y \in Held :
        /\ Registered(x) /\ iters[x].m_index = 0 /\ Deref(x).err = "none"
        /\ Invalidated(y) /\ iters[y].m_index = 2

\* C31: starting from begin(), repeated ++ visits the elements in index order
\* and reaches end() after exactly size() increments.  Stated by induction on
\* the position: begin() is at index 0 and reads element 0 (or equals end()
\* when the container is empty); ++ on an iterator at index k < size() that
\* reads element k raises no fault and leaves it at index k + 1, where it
\* reads element k + 1, or equals end() when k + 1 = size().
C31_Step ==
    \A c \in Containers : \A x \in Held :
        /\ /\ ~iters[x].bound /\ iters'[x].bound
           /\ iters'[x].m_container = c /\ iters'[x].m_index = 0
           /\ last'.op = "none"
           => IF m_size[c] > 0
              THEN Deref(x)' = [err |-> "none", value |-> Contents(c)[1]]
              ELSE iters'[x].m_index = m_size[c]
        /\ /\ last'.op = "increment" /\ last'.a = x
           /\ Registered(x) /\ iters[x].m_container = c
           /\ iters[x].m_index < m_size[c]
           /\ Deref(x) = [err |-> "none", value |-> Contents(c)[iters[x].m_index + 1]]
           => /\ last'.err = "none"
              /\ Registered(x)'
              /\ iters'[x].m_container = c
              /\ iters'[x].m_index = iters[x].m_index + 1
              /\ Contents(c)' = Contents(c)
              /\ IF iters'[x].m_index < m_size[c]
                 THEN Deref(x)' = [err |-> "none",
                                   value |-> Contents(c)[iters'[x].m_index + 1]]
                 ELSE /\ iters'[x].m_index = m_size[c]
                      /\ Deref(x)'.err = "assert_iterator_out_of_range"

C31_Traversal == [][C31_Step]_vars

\* an iterator incremented from the last slot of the second page, which is
\* exactly full, to end(), beside one that crossed from the first page to the
\* second and reads the third element
C31_Witness ==
    /\ last.op = "increment" /\ last.err = "none" /\ last.a \in Held
    /\ m_size[last.c] = 2 * PAGE_SIZE
    /\ Registered(last.a) /\ iters[last.a].m_index = m_size[last.c]
    /\ \E y \in Held :
        /\ Registered(y) /\ iters[y].m_index = PAGE_SIZE
        /\ Deref(y) = [err |-> "none", value |-> Contents(last.c)[PAGE_SIZE + 1]]

\* C32: orphaning an iterator node that is not on the container's list (it was
\* invalidated or unlinked before) changes nothing: _orphan_iterator returns
\* with the list head, every node and every container as they were; so the
\* destructor of an invalidated iterator leaves the lists, the other iterator
\* objects, and the containers' sizes, page tables and elements unchanged.
C32_Step ==
    \A c \in Containers : \A x \in Handles :
        /\ iters[x].bound /\ ~iters'[x].bound
        /\ iters[x].m_container = c /\ ~OnList(c, x)
        => /\ _orphan_iterator(Self(c), c, x) = Self(c)
           /\ m_iterator_list' = m_iterator_list
           /\ \A y \in ItIds \ {x} : iters'[y] = iters[y]
           /\ \A d \in Containers : IteratorList(d)' = IteratorList(d)
           /\ UNCHANGED <<m_pages, m_page_count, m_page_capacity, m_size, heap>>

C32_OrphanUnlisted == [][C32_Step]_vars

\* an invalidated iterator object of a container whose list still holds two
\* registered ones: its destructor is the orphaning of an unlisted node
C32_Witness ==
    \E c \in Containers : \E x \in Handles :
        /\ Invalidated(x) /\ iters[x].m_container = c /\ ~OnList(c, x)
        /\ Len(IteratorList(c)) = 2
        /\ \A y \in Handles \ {x} : Registered(y) /\ OnList(c, y)

\* C33: copy assignment and move assignment of a container to itself leave its
\* size, every element and its capacity unchanged (and raise no fault).
C33_Step ==
    \A c \in Containers :
        Calls({"copy_assign", "move_assign"}, c) /\ last'.other = c =>
            /\ last'.err = "none"
            /\ m_size'[c] = m_size[c]
            /\ Contents(c)' = Contents(c)
            /\ capacity(Self(c))' = capacity(Self(c))
            /\ m_page_capacity'[c] = m_page_capacity[c]

C33_SelfAssignment == [][C33_Step]_vars

\* a container of three elements on two pages after v = v
C33_Witness ==
    /\ last.op = "copy_assign" /\ last.other = last.c /\ last.err = "none"
    /\ m_size[last.c] = PAGE_SIZE + 1
    /\ capacity(Self(last.c)) = 2 * PAGE_SIZE
    /\ \A k \in 1..m_size[last.c] : Contents(last.c)[k] \in Values

\* the same container after v = std::move(v)
C33_WitnessMove ==
    /\ last.op = "move_assign" /\ last.other = last.c /\ last.err = "none"
    /\ m_size[last.c] = PAGE_SIZE + 1
    /\ capacity(Self(last.c)) = 2 * PAGE_SIZE

\* C34: after any sequence of container and iterator operations (iterators not
\* outliving their container), each container's iterator list is acyclic and
\* free of duplicates, and an iterator node is reachable from a container's
\* list head if and only if the node's back-reference equals that container.
C34_ListsWellFormed ==
    \A c \in Containers :
        /\ Len(IteratorList(c)) <= RetVal
        /\ \A j, k \in 1..Len(IteratorList(c)) :
               IteratorList(c)[j] = IteratorList(c)[k] => j = k
        /\ \A node \in ItIds :
               OnList(c, node) <=> iters[node].bound /\ iters[node].container = c

\* three iterator objects at different positions on one container's list,
\* the first of them adopted last and so at the head
C34_Witness ==
    \E c \in Containers :
        /\ Len(IteratorList(c)) = MaxIters + 1
        /\ \A x \in Handles : Registered(x) /\ iters[x].container = c
        /\ \E x, y \in Handles : x # y /\ iters[x].m_index # iters[y].m_index
        /\ IteratorList(c)[1] = 1

\* C35: every iterator that is still valid (registered with its container)
\* and whose index is < size() dereferences successfully to the element
\* currently at that index; in particular an iterator at end() dereferences to
\* the new element once push_back or a growing resize brings its index below
\* size().
C35_ValidIteratorsDeref ==
    \A c \in Containers : \A x \in Held :
        /\ Registered(x) /\ iters[x].m_container = c
        /\ iters[x].m_index < m_size[c]
        => Deref(x) = [err |-> "none", value |-> Contents(c)[iters[x].m_index + 1]]

\* what the code guarantees: such an iterator reads the element at its index
\* when it holds a cached page, and raises the page-cache fault when it holds
\* none (it was at end() when its cache was last computed)
C35_UnlessStale ==
    \A c \in Containers : \A x \in Held :
        /\ Registered(x) /\ iters[x].m_container = c
        /\ iters[x].m_index < m_size[c]
        => IF iters[x].m_current_page = NULL
           THEN Deref(x) = [err |-> "assert_invalid_page_cache", value |-> NoObj]
           ELSE Deref(x) = [err |-> "none", value |-> Contents(c)[iters[x].m_index + 1]]

\* an iterator taken at end() of an empty container, dereferenced after one
\* push_back: it is registered, its index 0 is below size() = 1, and the
\* dereference raised the page-cache fault
C35_Witness ==
    /\ last.op = "deref" /\ last.err = "assert_invalid_page_cache"
    /\ last.a \in Held /\ Registered(last.a)
    /\ iters[last.a].m_container = last.c
    /\ m_size[last.c] = 1 /\ iters[last.a].m_index = 0
    /\ Contents(last.c)[1] \in Values

\* the calls that produce an iterator from another one
ProduceOps == {"it_convert", "it_move", "it_assign", "it_move_assign"}

\* C36: with the iterator-debugging build, an iterator produced from an
\* invalidated iterator by copy construction, mutable-to-const conversion,
\* copy assignment, move construction or move assignment is itself invalid:
\* dereferencing it (* or ->) and incrementing it raise a fault.
C36_Step ==
    \A x \in Held, y \in Held :
        /\ last'.op \in ProduceOps /\ last'.a = x /\ last'.b = y
        /\ Invalidated(y)
        => /\ Deref(x)'.err # "none"
           /\ _verify_valid(Self(1), iters[x])' # "none"

C36_CopiesStayInvalid == [][C36_Step]_vars

\* what the code does: every such call on two different objects registers
\* the produced iterator with the container again, so that it passes
\* verification whenever its index is within 0..size(), and reads the element
\* at its index when the index is < size(); assigning an invalidated iterator
\* to itself leaves it invalidated
C36_Readopted ==
    [][\A x \in Held, y \in Held :
        /\ last'.op \in ProduceOps /\ last'.a = x /\ last'.b = y
        /\ Invalidated(y)
        => IF x = y THEN Invalidated(x)' /\ Deref(x)'.err = "assert_iterator_invalidated"
           ELSE /\ Registered(x)'
                /\ iters'[x].m_container = iters[y].m_container
                /\ iters'[x].m_index = iters[y].m_index
                /\ iters[y].m_index <= m_size[iters[y].m_container] =>
                       _verify_valid(Self(1), iters[x])' = "none"
                /\ iters[y].m_index < m_size[iters[y].m_container] =>
                       Deref(x)' = [err |-> "none",
                                    value |-> Contents(iters[y].m_container)
                                                  [iters[y].m_index + 1]]]_vars

\* a const_iterator made from an iterator that pop_back or clear invalidated
\* and that had been at the first element: it is registered and reads the
\* element the container has there now
C36_Witness ==
    /\ last.op = "it_convert" /\ last.c # NULL /\ last.other = NULL
    /\ last.a \in Held /\ last.b \in Held
    /\ Invalidated(last.b)
    /\ Registered(last.a) /\ iters[last.a].m_index = 0
    /\ m_size[last.c] > 0
    /\ Deref(last.a) = [err |-> "none", value |-> Contents(last.c)[1]]

\* C37: with the iterator-debugging build, after any sequence of operations
\* that raises no fault, every iterator registered in a container's list has
\* an index in 0..size(), and its captured registry index equals its logical
\* index.
C37_RegisteredInRange ==
    \A c \in Containers : \A node \in ItIds :
        OnList(c, node) =>
            /\ iters[node].m_index <= m_size[c]
            /\ iters[node].index = iters[node].m_index

\* what the code keeps: the captured index of every listed iterator equals its
\* logical index
C37_IndexCaptured ==
    \A c \in Containers : \A node \in ItIds :
        OnList(c, node) => iters[node].index = iters[node].m_index

\* and only operator++ takes a listed iterator beyond size(): no other call
\* leaves a listed iterator with an index > size() that was not so before
C37_OnlyIncrement ==
    [][last'.op # "increment" =>
        \A c \in Containers : \A node \in ItIds :
            OnList(c, node)' /\ iters'[node].m_index > m_size'[c] =>
                OnList(c, node) /\ iters[node].m_index > m_size[c]]_vars

\* an iterator at end() of a container of two elements after ++: no fault was
\* raised, it is still on the list, and its index is size() + 1
C37_Witness ==
    /\ last.op = "increment" /\ last.err = "none"
    /\ last.a \in Held /\ OnList(last.c, last.a)
    /\ m_size[last.c] = PAGE_SIZE
    /\ iters[last.a].m_index = m_size[last.c] + 1

\* the fields of container c as the code compiled with
\* CHUNKED_VEC_ITERATOR_DEBUG_LEVEL 0 sees them
Level0(c) == [Self(c) EXCEPT !.level = 0]

\* the member function that call ran, on the fields S
Replay(S, call) ==
    CASE call.op = "ctor_init" -> init_construct(S, call.a)
      [] call.op = "push_back" -> push_back(S, call.a)
      [] call.op = "pop_back" -> pop_back(S)
      [] call.op = "clear" -> clear(S)
      [] call.op = "reserve" -> reserve(S, call.a)
      [] call.op = "shrink_to_fit" -> shrink_to_fit(S)
      [] call.op = "resize" -> resize(S, call.a)
      [] call.op = "erase" ->
            end_of_call(erase(basic_iterator(S, PosArg, S.this, call.a), PosArg))
      [] call.op = "erase_range" ->
            end_of_call(erase_range(basic_iterator(basic_iterator(S, PosArg, S.this, call.a),
                                                   LastArg, S.this, call.b),
                                    PosArg, LastArg))
      [] call.op = "erase_unsorted" ->
            end_of_call(erase_unsorted(basic_iterator(S, PosArg, S.this, call.a), PosArg))
      [] OTHER -> S

ReplayOps == {"ctor_init", "push_back", "pop_back", "clear", "reserve", "shrink_to_fit",
              "resize", "erase", "erase_range", "erase_unsorted"}

\* R and S differ in the registry only
SameContainers(R, S) == [R EXCEPT !.lists = S.lists, !.its = S.its] = S

\* C38: the debug registry never affects container contents.  Every call that
\* raises no fault leaves the container with the size, capacity, page table,
\* pages and elements that the same call leaves when the code is compiled
\* with debug level 0; and _adopt_iterator, _orphan_iterator,
\* _invalidate_all_iterators and _invalidate_iterators_at_or_after change no
\* size, page table, page or element.
C38_Step ==
    /\ \A c \in Containers :
        Calls(ReplayOps, c) /\ last'.err = "none" =>
            \E T \in {Replay(Level0(c), last')} :
                /\ T.err = "none"
                /\ T.lists = m_iterator_list /\ T.its = iters
                /\ T.size = m_size'[c]
                /\ T.page_count = m_page_count'[c]
                /\ T.page_capacity = m_page_capacity'[c]
                /\ capacity(T) = capacity(Self(c))'
                /\ \A k \in 1..T.size : operator_index(T, k - 1) = Contents(c)'[k]
                /\ Len(T.pages) = Len(m_pages'[c])
                /\ \A i \in 1..Len(T.pages) :
                       m_pages'[c][i] = Rename(last'.ren, T.pages[i])
                /\ \A p \in PageIds :
                       last'.ren[p] # Dangling => heap'[last'.ren[p]] = T.heap[p]
    /\ \A c \in Containers : \A node \in ItIds :
        /\ SameContainers(_adopt_iterator(Self(c), c, node), Self(c))
        /\ SameContainers(_orphan_iterator(Self(c), c, node), Self(c))
        /\ SameContainers(_invalidate_all_iterators(Self(c), c), Self(c))
        /\ \A pos \in Sizes :
               SameContainers(_invalidate_iterators_at_or_after(Self(c), c, pos), Self(c))

C38_RegistryIsInert == [][C38_Step]_vars

\* the second of three elements erased while the caller held an iterator at
\* the first element, still registered, and one further back, now invalidated
C38_Witness ==
    /\ last.op = "erase" /\ last.a = 1 /\ last.err = "none"
    /\ m_size[last.c] = 2
    /\ \E x \in Held, y \in Held :
        /\ Registered(x) /\ iters[x].m_index = 0
        /\ Invalidated(y) /\ iters[y].m_index >= 1

\* the faults of the page bookkeeping: the assertions of allocate_page and
\* deallocate_page, and writes they guard against
BookkeepingFaults ==
    {"assert_page_idx_lt_capacity", "assert_page_not_allocated",
     "assert_page_idx_lt_count", "write_outside_table"}

\* C39: under any sequence of public operations called with valid arguments
\* the internal bookkeeping assertions never fire: allocate_page is only
\* called with page_idx < page_capacity on a slot that is null, deallocate_page
\* only with page_idx < page_count; and every slot of the page table in
\* [page_count, page_capacity) is null.
C39_Step ==
    /\ last'.err \notin BookkeepingFaults
    /\ \A c \in Containers :
        /\ Len(m_pages[c]) = m_page_capacity[c]
        /\ m_page_count[c] <= m_page_capacity[c]
        /\ \A i \in (m_page_count[c] + 1)..Len(m_pages[c]) : m_pages[c][i] = NULL

RECURSIVE Batches(_, _, _, _)
Batches(src_idx, dst_idx, elements_to_move, fuel) ==
    IF elements_to_move = 0 \/ fuel = 0 THEN <<>>
    ELSE LET n == elements_to_move_in_batch(elements_to_move, src_idx, dst_idx)
         IN <<[src |-> src_idx, dst |-> dst_idx, left |-> elements_to_move, n |-> n]>>
                \o Batches(src_idx + n, dst_idx + n, elements_to_move - n, fuel - 1)

\* every batch moves at least one element, no more than remain, and stays
\* within one source page and one destination page; the loop ends within
\* elements_to_move iterations having moved them all
GoodBatches(src_idx, dst_idx, elements_to_move) ==
    LET B == Batches(src_idx, dst_idx, elements_to_move, elements_to_move + 1) IN
    /\ Len(B) <= elements_to_move
    /\ \A k \in 1..Len(B) :
        /\ B[k].n >= 1
        /\ B[k].n <= B[k].left
        /\ B[k].n <= PAGE_SIZE - (B[k].src % PAGE_SIZE)
        /\ B[k].n <= PAGE_SIZE - (B[k].dst % PAGE_SIZE)
        /\ B[k].src \div PAGE_SIZE = (B[k].src + B[k].n - 1) \div PAGE_SIZE
        /\ B[k].dst \div PAGE_SIZE = (B[k].dst + B[k].n - 1) \div PAGE_SIZE
    /\ elements_to_move > 0 =>
           B[Len(B)].left = B[Len(B)].n

\* C40: in the shift loops of erase(pos) and erase(first, last) every batch
\* has size >= 1 and at most min(remaining count, slots left in the source
\* page, slots left in the destination page), so each batch stays within one
\* source page and one destination page, and the loop terminates after at
\* most elements_to_move iterations, for every erase position.
C40_Step ==
    \A c \in Containers :
        /\ Calls({"erase"}, c) =>
               /\ last'.err = "none"
               /\ GoodBatches(last'.a + 1, last'.a, m_size[c] - 1 - last'.a)
        /\ Calls({"erase_range"}, c) /\ last'.a < last'.b =>
               /\ last'.err = "none"
               /\ GoodBatches(last'.b, last'.a, m_size[c] - last'.b)

C40_ShiftBatches == [][C40_Step]_vars

\* the range [0, PAGE_SIZE) erased from two full pages: one batch moves the
\* whole second page onto the first
C40_Witness ==
    /\ last.op = "erase_range" /\ last.a = 0 /\ last.b = PAGE_SIZE
    /\ last.err = "none"
    /\ m_size[last.c] = PAGE_SIZE
    /\ Len(Batches(PAGE_SIZE, 0, PAGE_SIZE, PAGE_SIZE + 1)) = 1

\* the first of 2 * PAGE_SIZE elements erased: the shift alternates between
\* batches inside a page and batches across the page boundary
C40_WitnessAcross ==
    /\ last.op = "erase" /\ last.a = 0 /\ last.err = "none"
    /\ m_size[last.c] = 2 * PAGE_SIZE - 1
    /\ \E k \in 1..Len(Batches(1, 0, 2 * PAGE_SIZE - 1, 2 * PAGE_SIZE)) :
           LET b == Batches(1, 0, 2 * PAGE_SIZE - 1, 2 * PAGE_SIZE)[k] IN
           b.src \div PAGE_SIZE # b.dst \div PAGE_SIZE

\* the batch size computed as above with the page size P in place of PAGE_SIZE
BatchOf(P, elements_to_move, src_idx, dst_idx) ==
    Min(elements_to_move, Min(P - (src_idx % P), P - (dst_idx % P)))

\* the page sizes and loop positions the bounds of a batch are checked for
BatchPages == 1..(2 * PAGE_SIZE)
BatchIndexes == 0..(2 * MaxSize)

\* the bounds of one batch hold for page sizes other than PAGE_SIZE as well,
\* and BatchOf is elements_to_move_in_batch at PAGE_SIZE
C40_AnyPageSize ==
    \A P \in BatchPages : \A dst_idx \in BatchIndexes, src_idx \in BatchIndexes :
        \A left \in 1..(2 * MaxSize) :
            dst_idx < src_idx =>
                LET n == BatchOf(P, left, src_idx, dst_idx) IN
                /\ n >= 1 /\ n <= left
                /\ src_idx \div P = (src_idx + n - 1) \div P
                /\ dst_idx \div P = (dst_idx + n - 1) \div P
                /\ P = PAGE_SIZE =>
                       n = elements_to_move_in_batch(left, src_idx, dst_idx)

=============================================================================
